---- MODULE Spec2Model ----
(***************************************************************************)
(* A model of the weather skill: src/__init__.py (WeatherSkill),           *)
(* src/util.py, src/source/weather_report.py (Wind, WeatherReport),        *)
(* src/source/weather_config.py (WeatherConfig) and src/source/api.py      *)
(* (OWMApi).                                                               *)
(*                                                                         *)
(* Encoding of Python values:                                              *)
(*   - a str that may be None is a TLA+ string, None being "None";         *)
(*   - a number that may be None is Nil (<<>>) or the 1-tuple <<n>>;       *)
(*   - an object that may be None is Nil or a record;                      *)
(*   - a datetime is a record [day, hour]: day a day number, hour 0..23;   *)
(*   - a spoken date is a sequence of tokens, "," being a token, so that   *)
(*     str.split(',') and "{} {}".format are computed, not assumed;        *)
(*   - a float of the wind data is an integer in a fixed scale (1/10000    *)
(*     m/s for a speed, 1/10 degree for a bearing).                        *)
(***************************************************************************)
EXTENDS Integers, Sequences, FiniteSets, TLC

VARIABLES
    call,                   \* the last application of a helper function or
                            \* property read
    wind,                   \* a Wind object: Nil before one is built
    weather_config,         \* WeatherSkill.weather_config
    location_translations,  \* WeatherSkill.weather_api.location_translations
    last,                   \* the query being answered: its handler and
                            \* message, and what the handler did
    scheduled,              \* the repeating events the skill has scheduled,
                            \* in the order scheduled: name and interval in
                            \* seconds
    configs,                \* WeatherConfig objects built apart from the
                            \* skill's, by object number
    api                     \* an OWMApi object: its query_cache, and now,
                            \* the time.monotonic() of the process in seconds

vars ==
    <<call, wind, weather_config, location_translations, last, scheduled,
      configs, api>>

\* the objects exercised on their own
lib_vars == <<configs, api>>

skill_vars ==
    <<weather_config, location_translations, last, scheduled, lib_vars>>

None == "None"
Nil == <<>>

(***************************************************************************)
(* Bounds of the model.                                                    *)
(***************************************************************************)
\* datetimes handed to the period-of-day functions lie on days 0..MaxDay
MaxDay == 2
\* __to_day is applied to days at most MaxOff days before or after now
MaxOff == 8
\* __get_seqs_from_list is applied to lists of day indices 0..MaxIdx
MaxIdx == 6
\* a location named in a query has at most MaxWords words
MaxWords == 2
\* the number of WeatherConfig objects built apart from the skill's
MaxConfigs == 2
\* the monotonic clock is followed up to MaxNow seconds
MaxNow == 1353

Hours == 0..23

(***************************************************************************)
(* src/util.py: to_time_period                                             *)
(***************************************************************************)
to_time_period_late_morning(when) ==
    LET hour == when.hour
        p0 == None
        p1 == IF hour >= 1 /\ hour < 5 THEN "early morning" ELSE p0
        p2 == IF hour > 5 /\ hour < 12 THEN "morning" ELSE p1
        p3 == IF hour >= 12 /\ hour < 17 THEN "afternoon" ELSE p2
        p4 == IF hour >= 17 /\ hour < 20 THEN "evening" ELSE p3
        p5 == IF hour >= 20 \/ hour < 1 THEN "overnight" ELSE p4
    IN  p5

\* the five ifs run in sequence, each overwriting period
to_time_period(when) ==
    LET hour == when.hour
        p0 == None
        p1 == IF hour >= 1 /\ hour < 5 THEN "early morning" ELSE p0
        p2 == IF hour >= 5 /\ hour < 12 THEN "morning" ELSE p1
        p3 == IF hour >= 12 /\ hour < 17 THEN "afternoon" ELSE p2
        p4 == IF hour >= 17 /\ hour < 20 THEN "evening" ELSE p3
        p5 == IF hour >= 20 \/ hour < 1 THEN "overnight" ELSE p4
    IN  p5

(***************************************************************************)
(* src/__init__.py: WeatherSkill.__to_time_period                          *)
(***************************************************************************)
skill_to_time_period(when) ==
    LET hour == when.hour
        p0 == None
        p1 == IF hour >= 1 /\ hour < 5 THEN "early morning" ELSE p0
        p2 == IF hour >= 5 /\ hour < 12 THEN "morning" ELSE p1
        p3 == IF hour >= 12 /\ hour < 17 THEN "afternoon" ELSE p2
        p4 == IF hour >= 17 /\ hour < 20 THEN "evening" ELSE p3
        p5 == IF hour >= 20 \/ hour < 1 THEN "overnight" ELSE p4
    IN  p5

(***************************************************************************)
(* src/__init__.py: WeatherSkill.__to_day and what it calls                *)
(***************************************************************************)
WeekdayNames ==
    <<"Monday", "Tuesday", "Wednesday", "Thursday", "Friday", "Saturday",
      "Sunday">>

\* nice_date(when, lang, now) of mycroft.util.format: the relative name for
\* yesterday, today and tomorrow, else one of the three full formats, which
\* all start "<weekday>, "; fmt is the format the calendar position selects
\* (same month and year, same year, another year)
nice_date(when, now, fmt) ==
    LET weekday == WeekdayNames[(when.day % 7) + 1] IN
    CASE when.day = now.day + 1 -> <<"tomorrow">>
      [] when.day = now.day -> <<"today">>
      [] when.day = now.day - 1 -> <<"yesterday">>
      [] OTHER ->
           CASE fmt = "date_full_no_year_month" -> <<weekday, ",", "the day">>
             [] fmt = "date_full_no_year" -> <<weekday, ",", "month day">>
             [] OTHER -> <<weekday, ",", "month day", ",", "year">>

\* self.translate('on.date'): the rendered text of the dialog on.date
translate_on_date == "on"

\* str.split(',')[0]: the text before the first comma
RECURSIVE split_comma_first(_)
split_comma_first(text) ==
    IF text = <<>> \/ Head(text) = "," THEN <<>>
    ELSE <<Head(text)>> \o split_comma_first(Tail(text))

to_day_preface_from_tomorrow(when, now, preface, fmt) ==
    LET speakable_date == nice_date(when, now, fmt)
        days_diff == when.day - now.day
        prefaced == IF preface /\ (-1 > days_diff \/ days_diff > 0)
                    THEN <<translate_on_date>> \o speakable_date
                    ELSE speakable_date
    IN  IF days_diff <= 6 THEN split_comma_first(prefaced) ELSE prefaced

to_day(when, now, preface, fmt) ==
    LET speakable_date == nice_date(when, now, fmt)
        days_diff == when.day - now.day
        prefaced == IF preface /\ (-1 > days_diff \/ days_diff > 1)
                    THEN <<translate_on_date>> \o speakable_date
                    ELSE speakable_date
    IN  IF days_diff <= 6 THEN split_comma_first(prefaced) ELSE prefaced

(***************************************************************************)
(* src/__init__.py: WeatherSkill.__get_seqs_from_list                      *)
(***************************************************************************)
RECURSIVE get_seqs_loop_drop_last(_, _, _, _, _)
get_seqs_loop_drop_last(nums, idx, current_seq, seq_nums, seq_active) ==
    IF idx > Len(nums) THEN seq_nums
    ELSE LET day == nums[idx] IN
         IF idx + 1 <= Len(nums) /\ nums[idx + 1] = day + 1
         THEN get_seqs_loop_drop_last(nums, idx + 1, Append(current_seq, day),
                                      seq_nums, TRUE)
         ELSE IF seq_active
         THEN get_seqs_loop_drop_last(nums, idx + 1, <<>>,
                                      Append(seq_nums, current_seq), FALSE)
         ELSE get_seqs_loop_drop_last(nums, idx + 1, current_seq, seq_nums,
                                      seq_active)

\* one turn of the for loop per index; idx is 1-based here
RECURSIVE get_seqs_loop(_, _, _, _, _)
get_seqs_loop(nums, idx, current_seq, seq_nums, seq_active) ==
    IF idx > Len(nums) THEN seq_nums
    ELSE LET day == nums[idx] IN
         IF idx + 1 <= Len(nums) /\ nums[idx + 1] = day + 1
         THEN get_seqs_loop(nums, idx + 1, Append(current_seq, day),
                            seq_nums, TRUE)
         ELSE IF seq_active
         THEN get_seqs_loop(nums, idx + 1, <<>>,
                            Append(seq_nums, Append(current_seq, day)), FALSE)
         ELSE get_seqs_loop(nums, idx + 1, current_seq, seq_nums, seq_active)

get_seqs_from_list_drop_last(nums) ==
    get_seqs_loop_drop_last(nums, 1, <<>>, <<>>, FALSE)

get_seqs_from_list(nums) == get_seqs_loop(nums, 1, <<>>, <<>>, FALSE)

\* the strictly increasing list of the members of a set of integers
RECURSIVE SortedSeq(_)
SortedSeq(S) ==
    IF S = {} THEN <<>>
    ELSE LET m == CHOOSE x \in S : \A y \in S : x <= y
         IN  <<m>> \o SortedSeq(S \ {m})

(***************************************************************************)
(* src/source/weather_config.py: the unit names                            *)
(***************************************************************************)
FAHRENHEIT == "fahrenheit"
CELSIUS == "celsius"
METRIC == "metric"
METERS_PER_SECOND == "meters per second"
MILES_PER_HOUR == "miles per hour"

(***************************************************************************)
(* src/source/weather_report.py: Wind.  A speed is in 1/10000 m/s, a       *)
(* bearing in 1/10 degree.                                                 *)
(***************************************************************************)
\* 2.23694, in 1/100000
MILES_PER_HOUR_MULTIPLIER == 223694

\* (min_degree, direction), the bearings 22.5 .. 337.5 in 1/10 degree
WIND_DIRECTION_CONVERSION ==
    << <<225, "N">>, <<675, "NE">>, <<1125, "E">>, <<1575, "SE">>,
       <<2025, "S">>, <<2475, "SW">>, <<2925, "W">>, <<3375, "NW">> >>

\* the literals of Wind.strength and Wind.direction
StrengthLightMax == 22352
StrengthMediumMax == 67056
DirectionNorthFrom == 3375

\* Python's round() of the non-negative rational q + r / scale, 0 <= r <
\* scale: to the nearest integer, a tie to the even one
round(q, r, scale) ==
    IF 2 * r < scale THEN q
    ELSE IF 2 * r > scale THEN q + 1
    ELSE IF q % 2 = 0 THEN q ELSE q + 1

\* round(speed) of a raw speed
round_speed(speed) == round(speed \div 10000, speed % 10000, 10000)

\* round(speed * 2.23694): the product is speed * MILES_PER_HOUR_MULTIPLIER
\* in 1/10^9, computed in two parts to stay within 32 bits
round_speed_mph(speed) ==
    LET hi == (speed \div 100) * MILES_PER_HOUR_MULTIPLIER
        lo == (speed % 100) * MILES_PER_HOUR_MULTIPLIER
        rest == (hi % 10000000) * 100 + lo
    IN  round((hi \div 10000000) + (rest \div 1000000000),
              rest % 1000000000, 1000000000)

\* Wind.__init__(weather, speed_unit), wind_data being weather.get_wind();
\* the class attributes _direction, _speed and _strength start as None
Wind(wind_data, speed_unit) ==
    [_wind |-> wind_data, speed_unit |-> speed_unit,
     _speed |-> Nil, _strength |-> None, _direction |-> None]

\* the property Wind.speed: the object after the read; the value read is
\* its _speed
Wind_speed(w) ==
    IF w._speed = Nil
    THEN [w EXCEPT !._speed =
             IF w.speed_unit = MILES_PER_HOUR
             THEN <<round_speed_mph(w._wind.speed)>>
             ELSE <<round_speed(w._wind.speed)>>]
    ELSE w

Wind_strength_of_converted_speed(w) ==
    IF w._strength = None
    THEN LET speed == IF w.speed_unit = MILES_PER_HOUR
                      THEN 10000 * round_speed_mph(w._wind.speed)
                      ELSE w._wind.speed
         IN  [w EXCEPT !._strength =
                 IF speed <= StrengthLightMax THEN "light"
                 ELSE IF speed <= StrengthMediumMax THEN "medium"
                 ELSE "hard"]
    ELSE w

\* the property Wind.strength: the object after the read; the value read is
\* its _strength
Wind_strength(w) ==
    IF w._strength = None
    THEN [w EXCEPT !._strength =
             IF w._wind.speed <= StrengthLightMax THEN "light"
             ELSE IF w._wind.speed <= StrengthMediumMax THEN "medium"
             ELSE "hard"]
    ELSE w

\* the for loop of Wind.direction: the direction of the first entry, from
\* index i on, whose min_degree exceeds the bearing; None when there is none
RECURSIVE first_direction_above(_, _)
first_direction_above(degree, i) ==
    IF i > Len(WIND_DIRECTION_CONVERSION) THEN None
    ELSE IF degree < WIND_DIRECTION_CONVERSION[i][1]
         THEN WIND_DIRECTION_CONVERSION[i][2]
         ELSE first_direction_above(degree, i + 1)

RECURSIVE first_direction_from(_, _)
first_direction_from(degree, i) ==
    IF i > Len(WIND_DIRECTION_CONVERSION) THEN None
    ELSE IF degree <= WIND_DIRECTION_CONVERSION[i][1]
         THEN WIND_DIRECTION_CONVERSION[i][2]
         ELSE first_direction_from(degree, i + 1)

Wind_direction_boundary_below(w) ==
    LET degree == w._wind.deg IN
    IF w._direction = None /\ degree # Nil
    THEN [w EXCEPT !._direction =
             IF degree[1] >= DirectionNorthFrom THEN "N"
             ELSE first_direction_from(degree[1], 1)]
    ELSE w

\* the property Wind.direction: the object after the read; the value read
\* is its _direction.  _wind.deg is Nil when the provider gave no 'deg'
Wind_direction(w) ==
    LET degree == w._wind.deg IN
    IF w._direction = None /\ degree # Nil
    THEN [w EXCEPT !._direction =
             IF degree[1] >= DirectionNorthFrom THEN "N"
             ELSE first_direction_above(degree[1], 1)]
    ELSE w

(***************************************************************************)
(* Exceptions and results.  An operation of the program that takes part in *)
(* a query is an operator from its arguments and the state s of the skill  *)
(* to a result [exc, ret, s]: the exception raised (NoExc when it          *)
(* returns), the value returned and the state it leaves.                   *)
(*   s.cfg        the WeatherConfig object (with its cached properties)    *)
(*   s.lt         weather_api.location_translations                        *)
(*   s.spoken     the dialogs spoken by speak_dialog, in order             *)
(*   s.emitted    the message types emitted on the bus, in order           *)
(*   s.gui        the display fields written                               *)
(*   s.requests   the requests handed to OWMApi.request, in order          *)
(*   s.temp_reads the units handed to weather.get_temperature, in order    *)
(*   s.winds      the Wind objects built, in order, as the query left them *)
(*   s.no_data    the data handed to the dialog no.forecast, in order      *)
(*   s.report     the WeatherReport last built or populated                *)
(*   s.scheduled  the repeating events scheduled                           *)
(*   s.handovers  the number of times handle_current_weather and           *)
(*                handle_forecast have called each other                   *)
(***************************************************************************)
NoExc == [type |-> "None", status |-> 0]
Exc(type) == [type |-> type, status |-> 0]
HTTPError(status) == [type |-> "HTTPError", status |-> status]
LocationNotFoundError == Exc("LocationNotFoundError")
\* a call that does not return: a loop that never ends
NoReturn == Exc("NoReturn")

\* src/source/api.py: APIErrors = (LocationNotFoundError, HTTPError)
APIErrors == {"LocationNotFoundError", "HTTPError"}

Ok(ret, s) == [exc |-> NoExc, ret |-> ret, s |-> s]
Raise(e, s) == [exc |-> e, ret |-> Nil, s |-> s]
Raised(r) == r.exc.type # "None"

\* the statements after a call: they run on its result when it returned, and
\* the exception goes to the caller when it raised
Then(r, rest(_)) == IF Raised(r) THEN r ELSE rest(r)

\* dict[key] = value
DictSet(d, key, value) ==
    [k \in (DOMAIN d) \cup {key} |-> IF k = key THEN value ELSE d[k]]

\* dict.get(key), Nil for None
DictGet(d, key) == IF key \in DOMAIN d THEN d[key] ELSE Nil

(***************************************************************************)
(* Location names are sequences of words; '' is <<>>, and a name that is   *)
(* None is NoneName.                                                       *)
(***************************************************************************)
NoneName == <<None>>

\* ' '.join(name.split()[:-1])
drop_last_word(name) == SubSeq(name, 1, Len(name) - 1)

(***************************************************************************)
(* The provider as one query sees it.  world.http is the status it answers *)
(* every request with (200 when it serves), world.found the names it       *)
(* knows (any other name is answered 404), world.days the day offsets from *)
(* today its daily forecast covers, world.first_hour the hour of today of  *)
(* the first 3-hour forecast, world.humidity and world.cond the weather.   *)
(***************************************************************************)
Today == [day |-> 0, hour |-> 0]

\* the temperatures of a weather in 1/10 degree, by unit: what pyowm's
\* Weather.get_temperature(unit) returns for the current weather or a
\* 3-hour forecast (temp, temp_min, temp_max) and for a daily forecast
\* (day, min, max)
CurrentTemps ==
    [celsius |-> [temp |-> 215, temp_min |-> 94, temp_max |-> 251],
     fahrenheit |-> [temp |-> 707, temp_min |-> 489, temp_max |-> 772],
     kelvin |-> [temp |-> 2947, temp_min |-> 2826, temp_max |-> 2983]]

DailyTemps ==
    [celsius |-> [day |-> 185, min |-> -15, max |-> 205],
     fahrenheit |-> [day |-> 653, min |-> 293, max |-> 689],
     kelvin |-> [day |-> 2917, min |-> 2717, max |-> 2937]]

\* a pyowm Weather
Weather(world, when, temps) ==
    [reference_time |-> when,
     detailed_status |-> world.cond,
     status |-> world.cond,
     weather_icon_name |-> "10d",
     humidity |-> world.humidity,
     wind |-> [speed |-> 35000, deg |-> <<2250>>],
     temperature |-> temps]

\* the Observation ObservationParser.parse_JSON builds: its weather
Observation(world) ==
    [weather |-> Weather(world, [day |-> Today.day, hour |-> 12],
                         CurrentTemps)]

\* the Forecaster to_forecast builds from a daily answer: its weathers, one
\* per day covered, in order
RECURSIVE DailyWeathers(_, _, _)
DailyWeathers(world, from, to) ==
    IF from > to THEN <<>>
    ELSE (IF from \in world.days
          THEN <<Weather(world, [day |-> Today.day + from, hour |-> 12],
                         DailyTemps)>>
          ELSE <<>>)
         \o DailyWeathers(world, from + 1, to)

\* the Forecaster to_forecast builds from a 3-hour answer: the reference
\* times of its weathers, every third hour from world.first_hour of today
\* to the end of tomorrow
ThreeHourTimes(world) ==
    {[day |-> d, hour |-> h] : d \in {Today.day, Today.day + 1},
                                h \in {0, 3, 6, 9, 12, 15, 18, 21}}
    \ {[day |-> Today.day, hour |-> h] : h \in 0..(world.first_hour - 1)}

\* hours since day 0, hour 0
HoursOf(dt) == dt.day * 24 + dt.hour

(***************************************************************************)
(* src/source/api.py: OWMApi                                               *)
(***************************************************************************)
\* OWMApi.request as a caller sees it: the request is recorded, and the
\* answer, stored or fetched, is returned or the HTTPError raised.  A body
\* holding {"cod":"404" is raised as HTTPError 404
request(data, s, world) ==
    LET s1 == [s EXCEPT !.requests = Append(@, data)] IN
    IF world.http # 200 THEN Raise(HTTPError(world.http), s1)
    ELSE IF "q" \in DOMAIN data.query /\ data.query.q \notin world.found
         THEN Raise(HTTPError(404), s1)
         ELSE Ok(data, s1)

\* the result's ret is the pair (observation, name)
RECURSIVE weather_at_location(_, _, _)
weather_at_location(name, s, world) ==
    IF name = <<>> THEN Raise(LocationNotFoundError, s)
    ELSE LET r == request([path |-> "/weather", query |-> [q |-> name]],
                          s, world)
         IN  IF ~Raised(r) THEN Ok(<<Observation(world), name>>, r.s)
             ELSE IF r.exc.type = "HTTPError" /\ r.exc.status = 404
             THEN \* None has no split()
                  IF name = NoneName THEN Raise(Exc("AttributeError"), r.s)
                  ELSE weather_at_location(drop_last_word(name), r.s, world)
             ELSE r

weather_at_place(name, lat, lon, s, world) ==
    IF lat # 0 /\ lon # 0
    THEN LET r == request([path |-> "/weather",
                           query |-> [lat |-> lat, lon |-> lon]], s, world)
         IN  IF Raised(r) THEN r ELSE Ok(Observation(world), r.s)
    ELSE LET name1 == IF name \in DOMAIN s.lt THEN s.lt[name] ELSE name
             r == weather_at_location(name1, s, world)
         IN  IF Raised(r) THEN r
             ELSE Ok(r.ret[1],
                     [r.s EXCEPT !.lt = DictSet(@, name1, r.ret[2])])

\* three_hours_forecast asking for the name as given
three_hours_forecast_untranslated(name, lat, lon, s, world) ==
    LET q == IF lat # 0 /\ lon # 0 THEN [lat |-> lat, lon |-> lon]
             ELSE [q |-> name]
        r == request([path |-> "/forecast", query |-> q], s, world)
    IN  IF Raised(r) THEN r ELSE Ok(ThreeHourTimes(world), r.s)

\* the result's ret is the set of reference times of the 3-hour forecast
three_hours_forecast(name, lat, lon, s, world) ==
    LET q == IF lat # 0 /\ lon # 0 THEN [lat |-> lat, lon |-> lon]
             ELSE [q |-> IF name \in DOMAIN s.lt THEN s.lt[name] ELSE name]
        r == request([path |-> "/forecast", query |-> q], s, world)
    IN  IF Raised(r) THEN r ELSE Ok(ThreeHourTimes(world), r.s)

\* the while loop of _daily_forecast_at_location; the provider answers one
\* query the same way throughout, so the loop does not end when the answer
\* to the name is an HTTPError other than 404
RECURSIVE daily_forecast_loop(_, _, _, _, _)
daily_forecast_loop(orig_name, name, limit, s, world) ==
    IF name = <<>> THEN Raise(LocationNotFoundError, s)
    ELSE LET r == request([path |-> "/forecast/daily",
                           query |-> [q |-> name, cnt |-> limit]], s, world)
         IN  IF ~Raised(r)
             THEN Ok(DailyWeathers(world, 0, limit - 1),
                     [r.s EXCEPT !.lt = DictSet(@, orig_name, name)])
             ELSE IF r.exc.status = 404
             THEN IF name = NoneName THEN Raise(Exc("AttributeError"), r.s)
                  ELSE daily_forecast_loop(orig_name, drop_last_word(name),
                                           limit, r.s, world)
             ELSE Raise(NoReturn, r.s)

daily_forecast_at_location(name, limit, s, world) ==
    LET name1 == IF name \in DOMAIN s.lt THEN s.lt[name] ELSE name
    IN  daily_forecast_loop(name1, name1, limit, s, world)

\* the result's ret is the sequence of weathers of the daily forecast
daily_forecast(name, lat, lon, limit, s, world) ==
    IF lat # 0 /\ lon # 0
    THEN LET r == request([path |-> "/forecast/daily",
                           query |-> [lat |-> lat, lon |-> lon,
                                      cnt |-> limit]], s, world)
         IN  IF Raised(r) THEN r
             ELSE Ok(DailyWeathers(world, 0, limit - 1), r.s)
    ELSE daily_forecast_at_location(name, limit, s, world)

(***************************************************************************)
(* src/source/weather_config.py: WeatherConfig                             *)
(***************************************************************************)
\* the device location of the core configuration
City == <<"lawrence">>
State == <<"kansas">>
Country == <<"usa">>

\* str.lower() on the values the 'units' setting takes in the model
lower(text) ==
    CASE text = "Fahrenheit" -> "fahrenheit"
      [] text = "Celsius" -> "celsius"
      [] OTHER -> text

\* WeatherConfig.__init__(core_config, settings); the class attributes
\* _temperature_unit and _speed_unit start as None
WeatherConfig(core_config, settings) ==
    [core_config |-> core_config, settings |-> settings,
     latitude |-> core_config.latitude, longitude |-> core_config.longitude,
     city |-> City, state |-> State, country |-> Country,
     _temperature_unit |-> None, _speed_unit |-> None]

WeatherConfig_speed_unit_uncached(c) ==
    [c EXCEPT !._speed_unit =
        IF c.core_config.system_unit = METRIC THEN METERS_PER_SECOND
        ELSE MILES_PER_HOUR]

\* the property speed_unit: the object after the read; the value read is
\* its _speed_unit
WeatherConfig_speed_unit(c) ==
    IF c._speed_unit = None
    THEN [c EXCEPT !._speed_unit =
             IF c.core_config.system_unit = METRIC THEN METERS_PER_SECOND
             ELSE MILES_PER_HOUR]
    ELSE c

\* the property temperature_unit: the object after the read; the value read
\* is its _temperature_unit
WeatherConfig_temperature_unit(c) ==
    IF c._temperature_unit = None
    THEN LET unit_from_settings == c.settings.units
             measurement_system == c.core_config.system_unit
         IN  IF unit_from_settings = None
             THEN [c EXCEPT !._temperature_unit =
                      IF measurement_system = METRIC THEN CELSIUS
                      ELSE FAHRENHEIT]
             ELSE IF lower(unit_from_settings) = FAHRENHEIT
             THEN [c EXCEPT !._temperature_unit = FAHRENHEIT]
             ELSE IF lower(unit_from_settings) = CELSIUS
             THEN [c EXCEPT !._temperature_unit = CELSIUS]
             ELSE c
    ELSE c

(***************************************************************************)
(* src/source/weather_report.py: WeatherReport                             *)
(***************************************************************************)
\* ', '.join([city, state, country]) as words
JoinLocation(city, state, country) ==
    SubSeq(city, 1, Len(city) - 1) \o <<city[Len(city)] \o ",">>
    \o SubSeq(state, 1, Len(state) - 1) \o <<state[Len(state)] \o ",">>
    \o country

\* WeatherReport.__init__(weather_config): the result's ret is the report,
\* its s.cfg the config after the read of temperature_unit
WeatherReport(s) ==
    Then(Ok(WeatherConfig_temperature_unit(s.cfg), s), LAMBDA read :
    LET c == read.ret
        report ==
            [short_location |-> c.city,
             long_location |-> JoinLocation(c.city, c.state, c.country),
             temperature_unit |-> c._temperature_unit,
             condition |-> None, condition_category |-> None, icon |-> None,
             temperature |-> None, minimum_temperature |-> None,
             maximum_temperature |-> None, humidity |-> Nil, wind |-> Nil,
             wind_format |-> None, forecast_time |-> Nil, time |-> None,
             day |-> Nil, wind_unit |-> None]
    IN  Ok(report, [s EXCEPT !.cfg = c, !.report = report]))

\* str(n) of an integer: its decimal digits, after "-" when negative
Digits == <<"0", "1", "2", "3", "4", "5", "6", "7", "8", "9">>

RECURSIVE str_nat(_)
str_nat(n) ==
    IF n < 10 THEN Digits[n + 1]
    ELSE str_nat(n \div 10) \o Digits[(n % 10) + 1]

str_int(n) == IF n < 0 THEN "-" \o str_nat(0 - n) ELSE str_nat(n)

\* WeatherReport.get_temperature(weather, key): pyowm's
\* Weather.get_temperature(unit) raises ValueError for a unit that is not
\* kelvin, celsius or fahrenheit
get_temperature(report, weather, key, s) ==
    LET s1 == [s EXCEPT !.temp_reads = Append(@, report.temperature_unit)]
    IN  IF report.temperature_unit \notin {"kelvin", CELSIUS, FAHRENHEIT}
        THEN Raise(Exc("ValueError"), s1)
        ELSE LET temperatures == weather.temperature[report.temperature_unit]
                 \* the key whose value is taken, None when
                 \* temperatures.get finds none
                 found ==
                     IF key \in DOMAIN temperatures THEN key
                     ELSE IF key = "min" /\ "temp_min" \in DOMAIN temperatures
                     THEN "temp_min"
                     ELSE IF key = "max" /\ "temp_max" \in DOMAIN temperatures
                     THEN "temp_max"
                     ELSE None
             IN  IF found = None THEN Ok("", s1)
                 ELSE LET temperature == temperatures[found]
                      IN  Ok(str_int(round(temperature \div 10,
                                           temperature % 10, 10)), s1)

\* WeatherReport.add_forecast(forecast): the result's ret is the report.
\* The fields are assigned in the order of the code, so an exception leaves
\* the earlier ones set
add_forecast(report, forecast, s) ==
    LET p0 == [report EXCEPT
                  !.condition = forecast.detailed_status,
                  !.condition_category = forecast.status,
                  !.icon = forecast.weather_icon_name]
    IN
    Then(get_temperature(p0, forecast, "temp", [s EXCEPT !.report = p0]),
    LAMBDA r1 :
    LET p1 == [p0 EXCEPT !.temperature = r1.ret] IN
    Then(get_temperature(p1, forecast, "min", [r1.s EXCEPT !.report = p1]),
    LAMBDA r2 :
    LET p2 == [p1 EXCEPT !.minimum_temperature = r2.ret] IN
    Then(get_temperature(p2, forecast, "max", [r2.s EXCEPT !.report = p2]),
    LAMBDA r3 :
    Then(Ok(WeatherConfig_speed_unit(r3.s.cfg), r3.s), LAMBDA read :
    LET c == read.ret
        populated ==
            [p2 EXCEPT
                !.maximum_temperature = r3.ret,
                !.humidity = forecast.humidity,
                !.wind = Wind(forecast.wind, c._speed_unit),
                !.forecast_time = forecast.reference_time]
    IN  Ok(populated, [r3.s EXCEPT !.cfg = c, !.report = populated,
                                   !.winds = Append(@, populated.wind)])))))

\* WeatherReport.format_wind(): the result's ret is the pair of the
\* formatted text and the report, whose Wind has cached what was read
format_wind(report, s) ==
    IF report.wind = Nil THEN Raise(Exc("AttributeError"), s)
    ELSE LET w == Wind_strength(Wind_direction(Wind_speed(report.wind)))
             read == [report EXCEPT !.wind = w]
         IN  IF report.wind_format = None
             THEN Raise(Exc("AttributeError"), [s EXCEPT !.report = read])
             ELSE Ok(<< <<report.wind_format, w._speed, w._direction,
                          w._strength>>, read >>,
                     [s EXCEPT !.report = read])

(***************************************************************************)
(* src/__init__.py: WeatherSkill.  A message is its data: Location (a name,*)
(* NoneName when the slot is absent), Unit (None when absent) and when,    *)
(* the datetime extract_datetime finds in the utterance (Nil when it finds *)
(* none).  extract_datetime("today") is Today.  env is the language data   *)
(* of the skill as the query sees it: env.templates the registered dialog  *)
(* templates, env.voc the pairs (text, vocabulary) for which voc_match     *)
(* holds.                                                                  *)
(***************************************************************************)
\* datetime.now() during a query
Now == [day |-> Today.day, hour |-> 9]

\* the icon codes of WeatherSkill.__init__
CODES ==
    [x \in {"01d", "01n", "02d", "02n", "03d", "03n", "04d", "04n", "09d",
            "09n", "10d", "10n", "11d", "11n", "13d", "13n", "50d", "50n"}
        |-> CASE x \in {"01d", "01n"} -> 0
              [] x \in {"02d", "02n", "03d", "03n"} -> 1
              [] x \in {"04d", "04n"} -> 2
              [] x \in {"09d", "09n"} -> 3
              [] x \in {"10d", "10n"} -> 4
              [] x \in {"11d", "11n"} -> 5
              [] x \in {"13d", "13n"} -> 6
              [] OTHER -> 7]

\* str.capitalize(), str.title() and str.lower() on the words the skill
\* applies them to
capitalize(word) ==
    CASE word = "snow" -> "Snow"
      [] word = "snowing" -> "Snowing"
      [] word = "clear" -> "Clear"
      [] word = "cloudy" -> "Cloudy"
      [] word = "fog" -> "Fog"
      [] word = "foggy" -> "Foggy"
      [] word = "rain" -> "Rain"
      [] word = "raining" -> "Raining"
      [] word = "storm" -> "Storm"
      [] word = "fahrenheit" -> "Fahrenheit"
      [] OTHER -> word

title(word) == capitalize(word)

\* MycroftSkill.voc_match(utterance, voc_filename)
voc_match(utt, voc_filename, env) == <<utt, voc_filename>> \in env.voc

\* MycroftSkill.translate(name): the rendered text of a registered dialog,
\* the name itself when no such template is registered
translate(name, env) ==
    IF name \in env.templates THEN "dialog:" \o name ELSE name

\* WeatherSkill.__translate(condition, future)
skill_translate(condition, future, env) ==
    IF future /\ (condition \o ".future") \in env.templates
    THEN translate(condition \o ".future", env)
    ELSE IF condition \in env.templates THEN translate(condition, env)
    ELSE condition

speak_dialog(name, s) == [s EXCEPT !.spoken = Append(@, name)]

report_no_data(data, s) ==
    IF data = Nil THEN Ok(Nil, speak_dialog("cant.get.forecast", s))
    ELSE Ok(Nil, [speak_dialog("no.forecast", s)
                     EXCEPT !.no_data = Append(@, data)])

api_error_pairs_on_forbidden(e, s) ==
    IF e.type = "LocationNotFoundError"
    THEN Ok(Nil, speak_dialog("location.not.found", s))
    ELSE IF e.status \in {401, 403}
    THEN Ok(Nil, [s EXCEPT !.emitted = Append(@, "mycroft.not.paired")])
    ELSE report_no_data(Nil, s)

\* WeatherSkill.__api_error(e)
api_error(e, s) ==
    IF e.type = "LocationNotFoundError"
    THEN Ok(Nil, speak_dialog("location.not.found", s))
    ELSE IF e.status = 401
    THEN Ok(Nil, [s EXCEPT !.emitted = Append(@, "mycroft.not.paired")])
    ELSE report_no_data(Nil, s)

\* WeatherSkill._get_requested_unit(message): the test is on intent_unit,
\* which is None when it is made
get_requested_unit(message, env) ==
    LET intent_unit == None
        message_unit == message.Unit
    IN  IF intent_unit # None
        THEN IF voc_match(message_unit, title(FAHRENHEIT), env)
             THEN FAHRENHEIT
             ELSE CELSIUS
        ELSE intent_unit

\* WeatherSkill._get_requested_location(message)
get_requested_location(message) == message.Location

\* WeatherSkill._initialize_report(message), message being Nil for None
initialize_report(message, s, env) ==
    Then(WeatherReport(s), LAMBDA r :
    IF message # Nil
    THEN LET intent_location == get_requested_location(message)
             report == [r.ret EXCEPT
                           !.short_location = intent_location,
                           !.long_location = intent_location,
                           !.temperature_unit =
                               get_requested_unit(message, env)]
         IN  Ok(report, [r.s EXCEPT !.report = report])
    ELSE r)

\* WeatherSkill.__get_forecast(when, location, lat, lon): the result's ret
\* is the weather of the day of when, Nil when the forecast has none
get_forecast(when, location, lat, lon, s, world) ==
    Then(daily_forecast(location, lat, lon, 14, s, world), LAMBDA r :
    LET hits == {i \in 1..Len(r.ret) :
                    r.ret[i].reference_time.day = when.day}
    IN  IF hits = {} THEN Ok(Nil, r.s)
        ELSE Ok(r.ret[CHOOSE i \in hits : \A j \in hits : i <= j], r.s))

\* WeatherSkill.__populate_current(report, unit)
populate_current(report, unit, s, world, env) ==
    IF report = Nil THEN Ok(Nil, s)
    ELSE
    LET c == s.cfg IN
    Then(weather_at_place(report.short_location, c.latitude, c.longitude,
                          s, world),
    LAMBDA r1 :
    LET current_weather == r1.ret.weather IN
    Then(get_forecast(current_weather.reference_time, report.short_location,
                      c.latitude, c.longitude, r1.s, world),
    LAMBDA r2 :
    IF r2.ret = Nil THEN Ok(Nil, r2.s)
    ELSE
    Then(add_forecast(report, current_weather, r2.s), LAMBDA r3 :
    LET populated ==
            [r3.ret EXCEPT
                !.condition = skill_translate(@, FALSE, env),
                !.humidity = <<translate("percentage.number", env), @>>,
                !.wind_format = "{speed} {direction}",
                !.day = to_day(Today, Now, TRUE, "date_full_no_year")]
    IN  Ok(populated, [r3.s EXCEPT !.report = populated]))))

\* Forecaster.get_weather_at(when) of pyowm on the 3-hour forecast: the
\* reference time closest to when, an exception (Nil here) when when lies
\* outside the forecast
get_weather_at(times, when) ==
    LET last_time == CHOOSE t \in times :
                        \A u \in times : HoursOf(u) <= HoursOf(t)
        dist(t) == IF HoursOf(t) < HoursOf(when)
                   THEN HoursOf(when) - HoursOf(t)
                   ELSE HoursOf(t) - HoursOf(when)
    IN  IF HoursOf(when) > HoursOf(last_time) THEN Nil
        ELSE CHOOSE t \in times :
                 \A u \in times :
                     \/ dist(t) < dist(u)
                     \/ dist(t) = dist(u) /\ HoursOf(t) <= HoursOf(u)

\* WeatherSkill.__populate_for_time(report, when, unit)
populate_for_time(report, when, unit, s, world, env) ==
    LET c == s.cfg IN
    Then(three_hours_forecast(report.long_location, c.latitude, c.longitude,
                              s, world),
    LAMBDA r1 :
    LET times == r1.ret
        earliest == CHOOSE t \in times :
                        \A u \in times : HoursOf(t) <= HoursOf(u)
    IN
    Then(Ok(IF HoursOf(when) < HoursOf(earliest) THEN earliest
            ELSE get_weather_at(times, when), r1.s),
    LAMBDA found :
    LET fc_time == found.ret IN
    IF fc_time = Nil THEN Ok(Nil, r1.s)
    ELSE
    Then(add_forecast(report, Weather(world, fc_time, CurrentTemps), r1.s),
    LAMBDA r2 :
    LET populated ==
            [r2.ret EXCEPT
                !.humidity = <<translate("percentage.number", env), @>>,
                !.wind_format = "{speed}",
                !.time = skill_to_time_period(fc_time),
                !.day = to_day(when, Now, TRUE, "date_full_no_year")]
    IN  Ok(populated, [r2.s EXCEPT !.report = populated]))))

\* WeatherSkill.__populate_forecast(report, when, preface_day)
populate_forecast(report, when, preface_day, s, world, env) ==
    IF report = Nil THEN Ok(Nil, s)
    ELSE
    LET c == s.cfg IN
    Then(get_forecast(when, report.short_location, c.latitude, c.longitude,
                      s, world),
    LAMBDA r1 :
    IF r1.ret = Nil THEN Ok(Nil, r1.s)
    ELSE
    Then(add_forecast(report, r1.ret, r1.s), LAMBDA r2 :
    LET populated ==
            [r2.ret EXCEPT
                !.condition = skill_translate(@, TRUE, env),
                !.humidity = <<translate("percentage.number", env), @>>,
                !.day = to_day(when, Now, preface_day, "date_full_no_year")]
    IN  Ok(populated, [r2.s EXCEPT !.report = populated])))

\* the calls __populate_forecast(report, when, unit, preface_day) of
\* report_forecast and report_multiday_forecast and
\* __populate_forecast(report, when, unit, preface_day=True) of
\* __populate_report: one argument more than the method takes
populate_forecast_with_unit(report, when, unit, preface_day, s, world, env) ==
    Raise(Exc("TypeError"), s)

\* the calls self.mark2_forecast(report): the method takes no argument
mark2_forecast_with_report(report, s) == Raise(Exc("TypeError"), s)

select_condition_dialog_local_outermost(message, report, noun, exp, env) ==
    IF report = Nil THEN "do not know"
    ELSE
    LET alternative_voc == capitalize(noun) \o "Alternatives"
        base ==
            IF voc_match(report.condition, capitalize(exp), env)
            THEN "affirmative.condition"
            ELSE IF report.time # None
            THEN IF voc_match(report.condition, alternative_voc, env)
                 THEN "cond.alternative"
                 ELSE "no.cond.predicted"
            ELSE IF voc_match(report.condition, alternative_voc, env)
            THEN exp \o ".alternative"
            ELSE "no." \o noun \o ".predicted"
        forecast == IF report.day # Nil THEN "forecast." \o base ELSE base
        local == IF message.Location = NoneName THEN "local." \o forecast
                 ELSE forecast
    IN  IF report.time # None /\ ("at.time." \o local) \in env.templates
        THEN "at.time." \o local
        ELSE local

select_condition_dialog_time_first(message, report, noun, exp, env) ==
    IF report = Nil THEN "do not know"
    ELSE
    LET alternative_voc == capitalize(noun) \o "Alternatives"
        base ==
            IF report.time # None
            THEN IF voc_match(report.condition, alternative_voc, env)
                 THEN "cond.alternative"
                 ELSE "no.cond.predicted"
            ELSE IF voc_match(report.condition, capitalize(exp), env)
            THEN "affirmative.condition"
            ELSE IF voc_match(report.condition, alternative_voc, env)
            THEN exp \o ".alternative"
            ELSE "no." \o noun \o ".predicted"
        local == IF message.Location = NoneName THEN "local." \o base
                 ELSE base
        forecast == IF report.day # Nil THEN "forecast." \o local ELSE local
    IN  IF report.time # None /\ ("at.time." \o forecast) \in env.templates
        THEN "at.time." \o forecast
        ELSE forecast

\* WeatherSkill.__select_condition_dialog(message, report, noun, exp), exp
\* being noun where the caller gives none; noun and exp are lower case in
\* every call, so noun.lower() and exp.lower() are noun and exp
select_condition_dialog(message, report, noun, exp, env) ==
    IF report = Nil THEN "do not know"
    ELSE
    LET alternative_voc == capitalize(noun) \o "Alternatives"
        base ==
            IF voc_match(report.condition, capitalize(exp), env)
            THEN "affirmative.condition"
            ELSE IF report.time # None
            THEN IF voc_match(report.condition, alternative_voc, env)
                 THEN "cond.alternative"
                 ELSE "no.cond.predicted"
            ELSE IF voc_match(report.condition, alternative_voc, env)
            THEN exp \o ".alternative"
            ELSE "no." \o noun \o ".predicted"
        local == IF message.Location = NoneName THEN "local." \o base
                 ELSE base
        forecast == IF report.day # Nil THEN "forecast." \o local ELSE local
    IN  IF report.time # None /\ ("at.time." \o forecast) \in env.templates
        THEN "at.time." \o forecast
        ELSE forecast

\* WeatherSkill.__report_weather(timeframe, report, rtype, separate_min_max)
report_weather(timeframe, report, rtype, separate_min_max, s, env) ==
    LET short == IF report.short_location \notin {NoneName, <<>>}
                    /\ report.short_location \in DOMAIN s.lt
                 THEN s.lt[report.short_location]
                 ELSE report.short_location
        r0 == [report EXCEPT !.short_location = short]
        s0 == [s EXCEPT !.report = r0]
        s1 == [s0 EXCEPT !.gui = @ \cup {"current", "min", "max"}]
        s2 == [s1 EXCEPT !.gui = @ \cup {"location", "condition", "icon",
                                         "weathercode", "humidity"}]
        dialog_name ==
            timeframe
            \o (IF short = City THEN ".local" ELSE "")
            \o "." \o rtype
    IN  \* CODES[str(report.icon)]
        IF report.icon \notin DOMAIN CODES THEN Raise(Exc("KeyError"), s0)
        \* report.long_location.replace(', ', '\n')
        ELSE IF report.long_location = NoneName
        THEN Raise(Exc("AttributeError"), s1)
        ELSE
        Then(format_wind(r0, s2), LAMBDA rw :
        LET s3 == [rw.s EXCEPT !.gui = @ \cup {"wind"}]
            s4 == speak_dialog(dialog_name, s3)
        IN  IF separate_min_max THEN Ok(Nil, speak_dialog("min.max", s4))
            ELSE Ok(Nil, s4))

\* WeatherSkill.__report_condition(name, value, when, location)
report_condition(name, value, when, location, s) ==
    LET future == IF when # Nil /\ when.day # Today.day THEN ".future" ELSE ""
        at_location == IF location \notin {NoneName, <<>>}
                       THEN ".at.location" ELSE ""
    IN  Ok(Nil, speak_dialog("report.condition" \o future \o at_location, s))

\* WeatherSkill.report_forecast(report, when, dialog, unit, preface_day)
report_forecast(report, when, dialog, preface_day, s, world, env) ==
    Then(populate_forecast_with_unit(report, when, None, preface_day, s,
                                     world, env),
    LAMBDA r :
    IF r.ret = Nil
    THEN report_no_data([day |-> to_day(when, Now, preface_day,
                                        "date_full_no_year")], r.s)
    ELSE report_weather("forecast", r.ret, dialog, FALSE, r.s, env))

\* join_list(items, connector, sep) of mycroft.util.format on texts that
\* are sequences of words: "a, b and c", sep being the ", "
RECURSIVE join_list(_, _, _)
join_list(items, connector, sep) ==
    IF items = <<>> THEN <<>>
    ELSE IF Len(items) = 1 THEN items[1]
    ELSE IF Len(items) = 2 THEN items[1] \o <<connector>> \o items[2]
    ELSE items[1] \o <<sep>> \o join_list(Tail(items), connector, sep)

\* the loop of report_multiday_forecast over the days left, report and
\* no_report being what the days before left
RECURSIVE report_multiday_days(_, _, _, _, _, _, _, _)
report_multiday_days(days, report, no_report, dialog, preface, s, world, env) ==
    IF days = <<>> THEN Ok(no_report, s)
    ELSE
    LET day == Head(days) IN
    IF day = Today
    THEN
    \* the report is populated in place, and left as it was when
    \* __populate_current returns None
    Then(populate_current(report, day, s, world, env), LAMBDA r :
    LET populated == IF r.ret = Nil THEN report ELSE r.ret IN
    IF populated = Nil THEN Raise(Exc("AttributeError"), r.s)
    ELSE
    LET dated == [populated EXCEPT
                     !.day = to_day(day, Now, preface,
                                    "date_full_no_year")]
    IN
    Then(report_weather("forecast", dated, dialog, FALSE,
                        [r.s EXCEPT !.report = dated], env),
    LAMBDA r1 :
    report_multiday_days(Tail(days), r1.s.report, no_report, dialog,
                         preface, r1.s, world, env)))
    ELSE
    Then(populate_forecast_with_unit(report, day, None, preface, s,
                                     world, env),
    LAMBDA r :
    IF r.ret = Nil
    THEN report_multiday_days(
             Tail(days), r.ret,
             Append(no_report, to_day(day, Now, FALSE, "date_full_no_year")),
             dialog, preface, r.s, world, env)
    ELSE
    Then(report_weather("forecast", r.ret, dialog, FALSE, r.s, env),
    LAMBDA r1 :
    report_multiday_days(Tail(days), r1.s.report, no_report, dialog,
                         preface, r1.s, world, env)))

\* WeatherSkill.report_multiday_forecast(report, when, num_days, set_days,
\* dialog, unit, preface_day), when and set_days being Nil for None
report_multiday_forecast(report, when, num_days, set_days, dialog, preface, s, world, env) ==
    LET first == IF when = Nil THEN Today ELSE when
        days == IF set_days # Nil /\ set_days # <<>> THEN set_days
                ELSE [i \in 1..num_days |->
                         [day |-> first.day + (i - 1), hour |-> first.hour]]
    IN
    Then(report_multiday_days(days, report, <<>>, dialog, preface, s,
                              world, env),
    LAMBDA r :
    IF r.ret # <<>>
    THEN report_no_data(
             [day |-> <<translate("on", env)>> \o join_list(r.ret, "and", ",")],
             r.s)
    ELSE Ok(Nil, r.s))

\* the read of an attribute of a WeatherReport: AttributeError when the
\* class sets none of that name
report_attribute(report, attr, s) ==
    IF attr \in DOMAIN report THEN Ok(report[attr], s)
    ELSE Raise(Exc("AttributeError"), s)

\* the try block of prime_weather_cache, the limit of its daily forecast
\* being 16
prime_weather_cache_try(report, s, world) ==
    Then(report_attribute(report, "city", s), LAMBDA city :
    Then(report_attribute(report, "latitude", city.s), LAMBDA lat :
    Then(report_attribute(report, "longitude", lat.s), LAMBDA lon :
    Then(weather_at_place(city.ret, lat.ret, lon.ret, lon.s, world),
    LAMBDA w :
    daily_forecast(city.ret, lat.ret, lon.ret, 16, w.s, world)))))

\* WeatherSkill.prime_weather_cache(): an Exception of the try block is
\* logged
prime_weather_cache(s, world, env) ==
    Then(initialize_report(Nil, s, env), LAMBDA r :
    LET body == prime_weather_cache_try(r.ret, r.s, world)
    IN  IF Raised(body) /\ body.exc # NoReturn THEN Ok(Nil, body.s)
        ELSE body)

\* MycroftSkill.cancel_scheduled_event(name): the events of that name are
\* removed
cancel_scheduled_event(name, s) ==
    [s EXCEPT !.scheduled = SelectSeq(@, LAMBDA e : e.name # name)]

\* MycroftSkill.schedule_repeating_event(handler, None, interval,
\* name=name): nothing is scheduled when an event of that name is
\* scheduled already
schedule_repeating_event(interval, name, s) ==
    IF \E i \in 1..Len(s.scheduled) : s.scheduled[i].name = name THEN s
    ELSE [s EXCEPT !.scheduled =
             Append(@, [name |-> name, interval |-> interval,
                        handler |-> "prime_weather_cache"])]

\* schedule_for_daily_use scheduling its three events under one name
schedule_for_daily_use_one_name(s, world, env) ==
    Then(prime_weather_cache(s, world, env), LAMBDA p :
    LET s1 == cancel_scheduled_event("precache1", p.s)
        s2 == cancel_scheduled_event("precache2", s1)
        s3 == cancel_scheduled_event("precache3", s2)
        s4 == schedule_repeating_event(60 * 60 * 24, "precache1", s3)
        s5 == schedule_repeating_event(60 * 60 * 24 - 60 * 15, "precache1",
                                       s4)
    IN  Ok(Nil, schedule_repeating_event(60 * 60 * 24 + 60 * 15,
                                         "precache1", s5)))

\* WeatherSkill.schedule_for_daily_use()
schedule_for_daily_use(s, world, env) ==
    Then(prime_weather_cache(s, world, env), LAMBDA p :
    LET s1 == cancel_scheduled_event("precache1", p.s)
        s2 == cancel_scheduled_event("precache2", s1)
        s3 == cancel_scheduled_event("precache3", s2)
        s4 == schedule_repeating_event(60 * 60 * 24, "precache1", s3)
        s5 == schedule_repeating_event(60 * 60 * 24 - 60 * 15, "precache2",
                                       s4)
    IN  Ok(Nil, schedule_repeating_event(60 * 60 * 24 + 60 * 15,
                                         "precache3", s5)))

\* WeatherSkill.mark2_forecast(): the daily forecast of 5 days is asked for
\* with report.latitude as latitude and as longitude, and the days from
\* tomorrow on are written to the display
mark2_forecast(s, world, env) ==
    Then(initialize_report(Nil, s, env), LAMBDA r :
    Then(report_attribute(r.ret, "city", r.s), LAMBDA city :
    Then(report_attribute(r.ret, "latitude", city.s), LAMBDA lat :
    Then(daily_forecast(city.ret, lat.ret, lat.ret, 5, lat.s, world),
    LAMBDA f :
    LET unit == WeatherConfig_temperature_unit(f.s.cfg)
        s1 == [f.s EXCEPT !.cfg = unit]
    IN  IF unit._temperature_unit \notin DOMAIN DailyTemps
        THEN Raise(Exc("ValueError"), s1)
        ELSE Ok(Nil, [s1 EXCEPT
                         !.temp_reads =
                             @ \o [i \in 1..(Len(f.ret) - 1) |->
                                      unit._temperature_unit],
                         !.gui = @ \cup {"forecast"}])))))

\* WeatherSkill.initialize(): an Exception of mark2_forecast is logged
initialize(s, world, env) ==
    Then(schedule_for_daily_use(s, world, env), LAMBDA r :
    LET m == mark2_forecast(r.s, world, env)
    IN  IF Raised(m) /\ m.exc # NoReturn THEN Ok(Nil, m.s) ELSE m)

\* WeatherSkill.__populate_report(message)
populate_report(message, s, world, env) ==
    LET unit == get_requested_unit(message, env)
        when == IF message.when # Nil THEN message.when ELSE Today
    IN
    Then(initialize_report(message, s, env), LAMBDA r :
    IF when.day = Today.day /\ when.hour # Today.hour
    THEN populate_for_time(r.ret, when, unit, r.s, world, env)
    ELSE IF Today.day # when.day
    THEN populate_forecast_with_unit(r.ret, when, unit, TRUE, r.s, world,
                                     env)
    ELSE populate_current(r.ret, unit, r.s, world, env))

\* what is left of a handler's body is run by the except clauses of
\* handle_current_weather: APIErrors go to __api_error, any other exception
\* is logged
RECURSIVE handle_current_weather(_, _, _, _), handle_forecast(_, _, _, _)

handle_current_weather_uncaught(message, s, world, env) ==
    LET when == message.when IN
    IF when # Nil /\ when # Today
    THEN handle_forecast(message, [s EXCEPT !.handovers = @ + 1], world,
                         env)
    ELSE
    Then(populate_report(message, s, world, env), LAMBDA r1 :
    IF r1.ret = Nil THEN report_no_data(Nil, r1.s)
    ELSE
    Then(report_weather("current", r1.ret, "weather",
                        message.Location = NoneName, r1.s, env),
    LAMBDA r2 :
    Then(mark2_forecast_with_report(r1.ret, r2.s), LAMBDA r3 :
    \* Establish the daily cadence
    schedule_for_daily_use(r3.s, world, env))))

\* the except clauses of handle_current_weather on what its try block did
handle_current_weather_except(body) ==
    IF ~Raised(body) \/ body.exc = NoReturn THEN body
    ELSE IF body.exc.type \in APIErrors THEN api_error(body.exc, body.s)
    ELSE Ok(Nil, body.s)

\* WeatherSkill.handle_current_weather(message)
handle_current_weather(message, s, world, env) ==
    handle_current_weather_except(
        handle_current_weather_uncaught(message, s, world, env))

\* WeatherSkill.handle_forecast(message)
handle_forecast(message, s, world, env) ==
    LET when == message.when IN
    Then(initialize_report(message, s, env), LAMBDA r :
    IF Today = when
    THEN handle_current_weather(message, [r.s EXCEPT !.handovers = @ + 1],
                                world, env)
    ELSE Then(report_forecast(r.ret, when, "weather", TRUE, r.s, world, env),
              LAMBDA f :
              \* Establish the daily cadence
              schedule_for_daily_use(f.s, world, env)))

\* handle_next_hour after _initialize_report: get_weathers()[0] is the
\* earliest weather of the 3-hour forecast
next_hour(report, s, world, env) ==
    LET c == s.cfg IN
    Then(three_hours_forecast(report.long_location, c.latitude, c.longitude,
                              s, world),
    LAMBDA f :
    LET times == f.ret
        earliest == CHOOSE t \in times :
                        \A u \in times : HoursOf(t) <= HoursOf(u)
    IN
    Then(add_forecast(report, Weather(world, earliest, CurrentTemps), f.s),
    LAMBDA a :
    report_weather("hour", a.ret, "weather", FALSE, a.s, env)))

\* WeatherSkill.handle_next_hour(message)
handle_next_hour(message, s, world, env) ==
    Then(initialize_report(message, s, env), LAMBDA r :
    next_hour(r.ret, r.s, world, env))

\* WeatherSkill.handle_three_day_forecast(message)
handle_three_day_forecast(message, s, world, env) ==
    Then(initialize_report(message, s, env), LAMBDA r :
    handle_current_weather_except(
        report_multiday_forecast(r.ret, Nil, 3, Nil, "weather", TRUE, r.s,
                                 world, env)))

\* WeatherSkill.handle_two_day_forecast(message): message.days are the
\* datetimes extract_datetime finds in the slots day_one, day_two, ...,
\* none when the utterance names no day
handle_two_day_forecast(message, s, world, env) ==
    Then(initialize_report(message, s, env), LAMBDA r :
    handle_current_weather_except(
        IF message.days # <<>>
        THEN report_multiday_forecast(r.ret, Nil, 3, message.days, "weather",
                                      TRUE, r.s, world, env)
        ELSE report_multiday_forecast(r.ret, Nil, 2, Nil, "weather", TRUE,
                                      r.s, world, env)))

\* WeatherSkill.__handle_typed(message, response_type)
handle_typed(message, response_type, s, world, env) ==
    LET when == message.when IN
    Then(initialize_report(message, s, env), LAMBDA r0 :
    IF when # Nil /\ when.day # Today.day
    THEN report_forecast(r0.ret, when, response_type, TRUE, r0.s, world, env)
    ELSE
    Then(populate_report(message, r0.s, world, env), LAMBDA r1 :
    IF r1.ret = Nil THEN report_no_data(Nil, r1.s)
    \* report.get('time'): a WeatherReport has no get
    ELSE Raise(Exc("AttributeError"), r1.s)))

\* WeatherSkill.handle_current_temperature(message)
handle_current_temperature(message, s, world, env) ==
    handle_typed(message, "temperature", s, world, env)

\* WeatherSkill.handle_humidity(message)
handle_humidity(message, s, world, env) ==
    LET when == message.when
        current == when = Nil \/ when = Today
    IN
    Then(initialize_report(message, s, env), LAMBDA r0 :
    LET c == r0.s.cfg IN
    Then(IF current
         THEN weather_at_place(r0.ret.long_location, c.latitude, c.longitude,
                               r0.s, world)
         ELSE get_forecast(when, r0.ret.long_location, c.latitude,
                           c.longitude, r0.s, world),
    LAMBDA r :
    LET weather == IF current THEN r.ret.weather ELSE r.ret
        value == <<translate("percentage.number", env), weather.humidity>>
    IN  IF weather = Nil THEN report_no_data(Nil, r.s)
        ELSE IF weather.humidity = 0
        THEN Ok(Nil, speak_dialog("do not know", r.s))
        ELSE report_condition(skill_translate("humidity", FALSE, env), value,
                              when, message.Location, r.s)))

\* WeatherSkill.handle_windy(message).  weather.get_wind() is a dict, which
\* is never 0, and a weather is never empty
handle_windy(message, s, world, env) ==
    LET when == message.when
        current == when = Nil \/ when = Today
    IN
    Then(initialize_report(message, s, env), LAMBDA r0 :
    LET c == r0.s.cfg IN
    Then(IF current
         THEN weather_at_place(r0.ret.long_location, c.latitude, c.longitude,
                               r0.s, world)
         ELSE get_forecast(when, r0.ret.long_location, c.latitude,
                           c.longitude, r0.s, world),
    LAMBDA r :
    LET weather == IF current THEN r.ret.weather ELSE r.ret IN
    IF weather = Nil THEN report_no_data(Nil, r.s)
    ELSE
    LET wind0 == Wind(weather.wind, r0.ret.temperature_unit)
        wind1 == Wind_speed(Wind_direction(wind0))
        value == IF wind1._direction # None
                 THEN skill_translate("wind.speed.dir", FALSE, env)
                 ELSE skill_translate("wind.speed", FALSE, env)
        wind2 == Wind_strength(wind1)
    IN
    Then(report_condition(skill_translate("winds", FALSE, env), value, when,
                          message.Location, r.s),
    LAMBDA r1 :
    Ok(Nil, [speak_dialog("wind.strength." \o wind2._strength, r1.s)
                EXCEPT !.winds = Append(@, wind2)]))))

\* the handlers of the condition queries: handle_isit_snowing,
\* handle_isit_clear, handle_isit_cloudy, handle_isit_foggy,
\* handle_isit_raining and handle_isit_storming, which differ in the noun
\* and exp they pass
handle_isit_condition(message, noun, exp, s, world, env) ==
    Then(populate_report(message, s, world, env), LAMBDA r :
    IF r.ret = Nil THEN report_no_data(Nil, r.s)
    ELSE Ok(Nil, speak_dialog(
                select_condition_dialog(message, r.ret, noun, exp, env),
                r.s)))

(***************************************************************************)
(* src/__init__.py: WeatherSkill.handle_week_weather.  A forecast of the   *)
(* week is a dict; the text of a dialog is the sequence of its phrases, a  *)
(* phrase being the name of the dialog rendered and the data it is         *)
(* rendered with.  A temperature is the str of an integer, kept as the     *)
(* sequence of its characters so that str is compared as Python compares   *)
(* it.                                                                     *)
(***************************************************************************)
\* range(7): the days of the week reported
WeekLength == 7

\* self.translate(name, data), kept as the name and the data
Phrase(name, condition, from, to, day) ==
    [name |-> name, condition |-> condition, from |-> from, to |-> to,
     day |-> day]

\* a word spoken as it is
Word(text) == Phrase("", text, <<>>, <<>>, <<>>)

\* self.translate_namedvalues('condition.category')
speak_category ==
    [c \in {"Clear", "Clouds", "Rain", "Snow"} |-> "category " \o c]

\* list.count(x)
count(items, x) == Cardinality({i \in 1..Len(items) : items[i] = x})

\* max(items, key=items.count): the first of the items that occur most
max_by_count(items) ==
    items[CHOOSE i \in 1..Len(items) :
              /\ \A j \in 1..Len(items) :
                     count(items, items[j]) <= count(items, items[i])
              /\ \A j \in 1..(i - 1) :
                     count(items, items[j]) < count(items, items[i])]

\* the code points of the characters of the str of an integer
CharCode(c) ==
    CASE c = "-" -> 45
      [] OTHER -> 48 + (CHOOSE d \in 0..9 : Digits[d + 1] = c)

RECURSIVE chars_nat(_)
chars_nat(n) ==
    IF n < 10 THEN <<Digits[n + 1]>>
    ELSE Append(chars_nat(n \div 10), Digits[(n % 10) + 1])

\* str(int(round(temperature))) for a temperature that rounds to n
chars_int(n) == IF n < 0 THEN <<"-">> \o chars_nat(0 - n) ELSE chars_nat(n)

\* a < b for two str
RECURSIVE str_less(_, _)
str_less(a, b) ==
    IF b = <<>> THEN FALSE
    ELSE IF a = <<>> THEN TRUE
    ELSE IF Head(a) = Head(b) THEN str_less(Tail(a), Tail(b))
    ELSE CharCode(Head(a)) < CharCode(Head(b))

\* min(items) and max(items) of a list of str
min_str(items) ==
    items[CHOOSE i \in 1..Len(items) :
              /\ \A j \in 1..Len(items) : ~str_less(items[j], items[i])
              /\ \A j \in 1..(i - 1) : str_less(items[i], items[j])]

max_str(items) ==
    items[CHOOSE i \in 1..Len(items) :
              /\ \A j \in 1..Len(items) : ~str_less(items[i], items[j])
              /\ \A j \in 1..(i - 1) : str_less(items[j], items[i])]

\* collated[attribute]: fc.get(attribute) of every forecast
collate(forecasts, attribute) ==
    [i \in 1..Len(forecasts) |-> DictGet(forecasts[i], attribute)]

\* days_with_primary_cat: the indices, from 0, of the days of the category
days_with_cat(cats, cat) ==
    SelectSeq([i \in 1..Len(cats) |-> i - 1], LAMBDA d : cats[d + 1] = cat)

\* the keys of days_with_other_cat, in the order they were inserted
RECURSIVE other_cats(_, _, _)
other_cats(cats, primary_category, seen) ==
    IF cats = <<>> THEN seen
    ELSE LET item == Head(cats) IN
         IF item = primary_category
            \/ \E i \in 1..Len(seen) : seen[i] = item
         THEN other_cats(Tail(cats), primary_category, seen)
         ELSE other_cats(Tail(cats), primary_category, Append(seen, item))

\* self.__to_day(days[i]) for an index i from 0
week_day(days, i) == to_day(days[i + 1], Now, FALSE, "date_full_no_year")

\* the periods of the runs seq_primary_days[k..], 'and' before every one
\* but the first
RECURSIVE primary_periods(_, _, _)
primary_periods(seqs, k, days) ==
    IF k > Len(seqs) THEN <<>>
    ELSE LET seq == seqs[k] IN
         (IF k # 1 THEN <<Phrase("and", "", <<>>, <<>>, <<>>)>> ELSE <<>>)
         \o <<Phrase("weekly.conditions.seq.period", "",
                     week_day(days, seq[1]), week_day(days, seq[Len(seq)]),
                     <<>>)>>
         \o primary_periods(seqs, k + 1, days)

\* 0. and 1. of handle_week_weather: the dialog of the primary category
week_primary_dialog(cats, days) ==
    LET primary_category == max_by_count(cats)
        days_with_primary_cat == days_with_cat(cats, primary_category)
        start == IF days[1] = Today
                 THEN Phrase("this.week", "", <<>>, <<>>, <<>>)
                 ELSE Phrase("from.day", "", <<>>, <<>>,
                             week_day(days, 0))
        speak_primary == speak_category[primary_category]
        seq_primary_days == get_seqs_from_list(days_with_primary_cat)
    IN  IF 2 * Len(days_with_primary_cat) >= Len(days)
        THEN <<start, Phrase("weekly.conditions.mostly.one", speak_primary,
                             <<>>, <<>>, <<>>)>>
        ELSE IF seq_primary_days # <<>>
        THEN <<start, Phrase("weekly.conditions.seq.start", speak_primary,
                             <<>>, <<>>, <<>>)>>
             \o primary_periods(seq_primary_days, 1, days)
        ELSE <<start, Phrase("weekly.conditions.some.days", speak_primary,
                             <<>>, <<>>, <<>>)>>

\* the entries of dialog_list for one category other than the primary
week_cat_entries(cat, cat_days, conditions, days) ==
    LET spoken_cat == speak_category[cat]
        seq_days == get_seqs_from_list(cat_days)
    IN  IF seq_days # <<>>
        THEN [k \in 1..Len(seq_days) |->
                 <<IF k = 1 THEN Word(spoken_cat)
                   ELSE Phrase("and", "", <<>>, <<>>, <<>>),
                   Phrase("weekly.conditions.seq.period", "",
                          week_day(days, seq_days[k][1]),
                          week_day(days, seq_days[k][Len(seq_days[k])]),
                          <<>>)>>]
        ELSE [k \in 1..Len(cat_days) |->
                 <<Phrase("weekly.condition.on.day",
                          conditions[cat_days[k] + 1], <<>>, <<>>,
                          week_day(days, cat_days[k]))>>]

\* 2. of handle_week_weather: dialog_list
RECURSIVE week_dialog_list(_, _, _, _)
week_dialog_list(others, cats, conditions, days) ==
    IF others = <<>> THEN <<>>
    ELSE week_cat_entries(Head(others), days_with_cat(cats, Head(others)),
                          conditions, days)
         \o week_dialog_list(Tail(others), cats, conditions, days)

\* 3. of handle_week_weather: temp_ranges
week_temp_ranges(collated) ==
    [low_min |-> min_str(collated.temp_min),
     low_max |-> max_str(collated.temp_min),
     high_min |-> min_str(collated.temp_max),
     high_max |-> max_str(collated.temp_max)]

\* handle_week_weather from "collate forecasts" to its end: what is spoken
\* is the text of the primary category, the text of the other categories
\* and the dialog weekly.temp.range with its data
week_report(forecasts, days, s) ==
    LET collated ==
            [attribute \in {"condition", "condition_cat", "icon", "temp",
                            "temp_min", "temp_max"} |->
                collate(forecasts, attribute)]
        cats == collated.condition_cat
        primary_category == max_by_count(cats)
    IN  IF \E i \in 1..Len(cats) : cats[i] \notin DOMAIN speak_category
        THEN Raise(Exc("KeyError"), s)
        ELSE
        LET first == week_primary_dialog(cats, days)
            dialog_list ==
                week_dialog_list(other_cats(cats, primary_category, <<>>),
                                 cats, collated.condition, days)
            second == join_list(dialog_list,
                                Phrase("and", "", <<>>, <<>>, <<>>),
                                Phrase(",", "", <<>>, <<>>, <<>>))
            third == [name |-> "weekly.temp.range",
                      data |-> week_temp_ranges(collated)]
        IN  Ok(Nil, speak_dialog(third,
                        speak_dialog(second, speak_dialog(first, s))))

\* dict(report) of a WeatherReport or of None
dict_of_report(report, s) == Raise(Exc("TypeError"), s)

\* the list comprehension of handle_week_weather over the days left
RECURSIVE week_forecasts(_, _, _, _, _, _)
week_forecasts(days, report, forecasts, s, world, env) ==
    IF days = <<>> THEN Ok(forecasts, s)
    ELSE
    LET day == Head(days) IN
    Then(IF day # Today
         THEN populate_forecast(report, day, FALSE, s, world, env)
         ELSE populate_current(report, day, s, world, env),
    LAMBDA r :
    Then(dict_of_report(r.ret, r.s), LAMBDA fc :
    week_forecasts(Tail(days), IF r.ret = Nil THEN report ELSE r.ret,
                   Append(forecasts, fc.ret), fc.s, world, env)))

\* WeatherSkill.handle_week_weather(message)
handle_week_weather(message, s, world, env) ==
    Then(initialize_report(message, s, env), LAMBDA r0 :
    LET when == IF message.when = Nil THEN Today ELSE message.when
        days == [i \in 1..WeekLength |->
                    [day |-> when.day + (i - 1), hour |-> when.hour]]
    IN
    Then(week_forecasts(days, r0.ret, <<>>, r0.s, world, env), LAMBDA r :
    week_report(r.ret, days, r.s)))

(***************************************************************************)
(* Specification SpecUtil: the helper functions of the skill applied to    *)
(* inputs drawn from bounded sets.  call records the last application.     *)
(***************************************************************************)
\* the skill before its first query: the configuration of the device is
\* any of Configs
Idle == [handler |-> "none"]

\* no helper is being applied
NoCall == [fn |-> "none"]

\* the names a query gives: the first words of "paris texas usa"
Names == {SubSeq(<<"paris", "texas", "usa">>, 1, n) : n \in 1..MaxWords}

\* the state a handler starts in
Start ==
    [cfg |-> weather_config, lt |-> location_translations, spoken |-> <<>>,
     emitted |-> <<>>, gui |-> {}, requests |-> <<>>, temp_reads |-> <<>>,
     winds |-> <<>>, no_data |-> <<>>, report |-> Nil,
     scheduled |-> scheduled, handovers |-> 0]

CoreConfigs ==
    [system_unit : {METRIC, "imperial"}, latitude : {39}, longitude : {-95}]
    \cup [system_unit : {METRIC, "imperial"}, latitude : {0}, longitude : {0}]

Settings == [units : {None, "Fahrenheit", "kelvin"}]

\* no object is built apart from the skill's
InitLib ==
    /\ configs = <<>>
    /\ api = [query_cache |-> <<>>, now |-> 0]

InitSkill ==
    /\ weather_config \in
           {WeatherConfig(core_config, settings) :
               core_config \in CoreConfigs, settings \in Settings}
    /\ location_translations = <<>>
    /\ last = Idle
    /\ scheduled = <<>>
    /\ InitLib

InitSkillFixed ==
    /\ weather_config =
           WeatherConfig([system_unit |-> METRIC, latitude |-> 39,
                          longitude |-> -95], [units |-> None])
    /\ location_translations = <<>>
    /\ last = Idle
    /\ scheduled = <<>>
    /\ InitLib

InitUtil ==
    /\ call = NoCall
    /\ wind = Nil
    /\ InitSkillFixed

Call_to_time_period ==
    /\ call = NoCall
    /\ \E d \in 0..MaxDay, h \in Hours :
        LET when == [day |-> d, hour |-> h] IN
        /\ call' = [fn |-> "to_time_period", when |-> when,
                 ret |-> to_time_period(when)]
        /\ UNCHANGED <<wind, skill_vars>>

Call_skill_to_time_period ==
    /\ call = NoCall
    /\ \E d \in 0..MaxDay, h \in Hours :
        LET when == [day |-> d, hour |-> h] IN
        /\ call' = [fn |-> "__to_time_period", when |-> when,
                 ret |-> skill_to_time_period(when)]
        /\ UNCHANGED <<wind, skill_vars>>

DateFormats == {"date_full", "date_full_no_year", "date_full_no_year_month"}

Call_to_day ==
    /\ call = NoCall
    /\ \E off \in (0 - MaxOff)..MaxOff, h \in {0, 12}, preface \in BOOLEAN,
       fmt \in DateFormats :
        LET now == [day |-> MaxOff, hour |-> 9]
            when == [day |-> MaxOff + off, hour |-> h]
        IN  /\ call' = [fn |-> "__to_day", when |-> when, now |-> now,
                        preface |-> preface, fmt |-> fmt,
                        ret |-> to_day(when, now, preface, fmt)]
            /\ UNCHANGED <<wind, skill_vars>>

Call_get_seqs_from_list ==
    /\ call = NoCall
    /\ \E S \in SUBSET (0..MaxIdx) :
        LET nums == SortedSeq(S) IN
        /\ call' = [fn |-> "__get_seqs_from_list", nums |-> nums,
                 ret |-> get_seqs_from_list(nums)]
        /\ UNCHANGED <<wind, skill_vars>>

\* the (noun, exp) pairs of handle_isit_raining, handle_isit_snowing and
\* handle_isit_clear
ConditionQueries ==
    {<<"rain", "raining">>, <<"snow", "snowing">>, <<"clear", "clear">>}

\* the condition texts of the provider in the model
Conditions == {"light rain", "clear sky"}

\* the vocabularies the condition "light rain" may be listed in
ConditionVoc ==
    {<<"light rain", v>> :
        v \in {"Raining", "RainAlternatives", "Snowing", "SnowAlternatives"}}

\* report.time, report.day and the Location of a query
Periods == {None, to_time_period([day |-> Today.day, hour |-> 15])}
Days == {Nil, to_day([day |-> Today.day + 2, hour |-> 0], Now, TRUE,
                     "date_full_no_year")}
Locations == {NoneName} \cup Names

\* the names the selection builds before it tries "at.time."
BuiltNames ==
    {forecast \o local \o base :
        forecast \in {"", "forecast."}, local \in {"", "local."},
        base \in {"affirmative.condition", "cond.alternative",
                  "no.cond.predicted"}}

\* the dialogs registered: none with "at.time.", those of the local
\* queries, or all
AtTimeTemplates ==
    {{},
     {"at.time." \o n : n \in {m \in BuiltNames :
         \E base \in {"affirmative.condition", "cond.alternative",
                       "no.cond.predicted"},
            forecast \in {"", "forecast."} :
                m = forecast \o "local." \o base}},
     {"at.time." \o n : n \in BuiltNames}}

Call_select_condition_dialog ==
    /\ call = NoCall
    /\ \E Location \in Locations, query \in ConditionQueries,
       voc \in SUBSET ConditionVoc, templates \in AtTimeTemplates,
       report \in {Nil} \cup
           {[WeatherReport(Start).ret EXCEPT
                !.condition = condition, !.time = time, !.day = day] :
               condition \in Conditions, time \in Periods, day \in Days} :
        LET message == [Location |-> Location, Unit |-> None, when |-> Nil]
            env == [templates |-> templates, voc |-> voc]
        IN  /\ call' = [fn |-> "__select_condition_dialog",
                        message |-> message, report |-> report,
                        noun |-> query[1], exp |-> query[2], env |-> env,
                        ret |-> select_condition_dialog(
                                    message, report, query[1], query[2], env)]
            /\ UNCHANGED <<wind, skill_vars>>

\* the status codes of the HTTPErrors raised to the handlers, and the
\* exceptions of APIErrors
HttpErrorStatuses == {400, 401, 403, 404, 429, 500, 502, 503}

ApiExceptions ==
    {LocationNotFoundError} \cup {HTTPError(st) : st \in HttpErrorStatuses}

Call_api_error ==
    /\ call = NoCall
    /\ \E e \in ApiExceptions :
        LET r == api_error(e, Start)
        IN  /\ call' = [fn |-> "__api_error", e |-> e, exc |-> r.exc,
                        spoken |-> r.s.spoken, emitted |-> r.s.emitted]
            /\ UNCHANGED <<wind, skill_vars>>

\* the provider as an operation of OWMApi queried by name sees it: it
\* knows some of the names, and serves or fails
LocationWorlds ==
    [http : {200, 500},
     found : SUBSET Names,
     days : {0..13},
     first_hour : {0},
     humidity : {40},
     cond : {"light rain"}]

\* an operation of OWMApi has been applied to a name, without coordinates
ProviderCalled(fn, name, world, r) ==
    /\ call' = [fn |-> fn, name |-> name, world |-> world, exc |-> r.exc,
                requests |-> r.s.requests, lt |-> r.s.lt]
    /\ UNCHANGED <<wind, skill_vars>>

Call_weather_at_place ==
    /\ call = NoCall
    /\ \E name \in Names, world \in LocationWorlds :
           ProviderCalled("weather_at_place", name, world,
                          weather_at_place(name, 0, 0, Start, world))

Call_three_hours_forecast ==
    /\ call = NoCall
    /\ \E name \in Names, world \in LocationWorlds :
           ProviderCalled("three_hours_forecast", name, world,
                          three_hours_forecast(name, 0, 0, Start, world))

Call_daily_forecast ==
    /\ call = NoCall
    /\ \E name \in Names, world \in LocationWorlds :
           ProviderCalled("daily_forecast", name, world,
                          daily_forecast(name, 0, 0, 14, Start, world))

\* the messages _initialize_report is called with: with or without the
\* slots Location and Unit, and Nil for the call with no message
ReportMessages ==
    {Nil} \cup [Location : {NoneName} \cup Names,
                Unit : {None, FAHRENHEIT, CELSIUS}, when : {Nil}]

Call_initialize_report ==
    /\ call = NoCall
    /\ \E message \in ReportMessages,
          env \in [templates : {{}},
                   voc : {{}, {<<FAHRENHEIT, title(FAHRENHEIT)>>,
                               <<CELSIUS, title(CELSIUS)>>}}] :
        LET r == initialize_report(message, Start, env)
        IN  /\ call' = [fn |-> "_initialize_report", message |-> message,
                        env |-> env, exc |-> r.exc, ret |-> r.ret]
            /\ UNCHANGED <<wind, skill_vars>>

\* __populate_current on the report WeatherReport builds from the
\* configuration, and the dialog __select_condition_dialog selects for the
\* populated report in a query about rain that names no location
Call_populate_current ==
    /\ call = NoCall
    /\ \E world \in LocationWorlds, env \in [templates : {{}}, voc : {{}}] :
        LET built == initialize_report(Nil, Start, env)
            r == populate_current(built.ret, None, built.s, world, env)
            message == [Location |-> NoneName, Unit |-> None, when |-> Nil]
        IN  /\ call' = [fn |-> "__populate_current", world |-> world,
                        exc |-> r.exc, ret |-> r.ret,
                        dialog |-> IF Raised(r) THEN None
                                   ELSE select_condition_dialog(
                                            message, r.ret, "rain",
                                            "raining", env)]
            /\ UNCHANGED <<wind, skill_vars>>

\* the operations that populate a report for __report_weather
PopulateOps ==
    {"__populate_current", "__populate_for_time", "__populate_forecast",
     "handle_next_hour"}

\* a report is initialised, for a message that names paris or for none,
\* populated by one of the operations and, when it is not None, handed to
\* __report_weather; handle_next_hour does so itself
populate_and_report(op, message, s, world, env) ==
    IF op = "handle_next_hour" /\ message # Nil
    THEN handle_next_hour(message, s, world, env)
    ELSE
    Then(initialize_report(message, s, env), LAMBDA r :
    IF op = "handle_next_hour" THEN next_hour(r.ret, r.s, world, env)
    ELSE
    Then(CASE op = "__populate_current" ->
                  populate_current(r.ret, None, r.s, world, env)
           [] op = "__populate_for_time" ->
                  populate_for_time(r.ret, [day |-> Today.day, hour |-> 15],
                                    None, r.s, world, env)
           [] OTHER ->
                  populate_forecast(r.ret,
                                    [day |-> Today.day + 2, hour |-> 0],
                                    TRUE, r.s, world, env),
    LAMBDA p :
    IF p.ret = Nil THEN p
    ELSE report_weather(
             CASE op = "__populate_current" -> "current"
               [] op = "__populate_for_time" -> "at.time"
               [] OTHER -> "forecast",
             p.ret, "weather", FALSE, p.s, env)))

Call_report_weather ==
    /\ call = NoCall
    /\ \E op \in PopulateOps, world \in LocationWorlds,
          message \in {Nil, [Location |-> <<"paris">>, Unit |-> None,
                            when |-> Nil]},
          env \in [templates : {{}}, voc : {{}}] :
        LET r == populate_and_report(op, message, Start, world, env)
        IN  /\ call' = [fn |-> "__report_weather", op |-> op,
                        message |-> message, world |-> world,
                        exc |-> r.exc, report |-> r.s.report,
                        gui |-> r.s.gui, spoken |-> r.s.spoken]
            /\ UNCHANGED <<wind, skill_vars>>

\* the caller has taken the result
Return ==
    /\ call # NoCall
    /\ call' = NoCall
    /\ UNCHANGED <<wind, skill_vars>>

NextUtil ==
    \/ Call_to_time_period
    \/ Call_skill_to_time_period
    \/ Call_to_day
    \/ Call_get_seqs_from_list
    \/ Call_select_condition_dialog
    \/ Call_api_error
    \/ Call_weather_at_place
    \/ Call_three_hours_forecast
    \/ Call_daily_forecast
    \/ Call_initialize_report
    \/ Call_populate_current
    \/ Call_report_weather
    \/ Return

SpecUtil == InitUtil /\ [][NextUtil]_vars

(***************************************************************************)
(* Specification SpecWind: a Wind object is built from provider wind data  *)
(* and its properties are read, any number of times in any order.          *)
(***************************************************************************)
\* raw speeds in 1/10000 m/s, the two thresholds and their neighbours among
\* them
WindSpeeds ==
    {0, 5000, 22351, 22352, 22353, 25000, 35000, 67055, 67056, 67057, 120000}

\* bearings in 1/10 degree: 0, 360, and every boundary with its neighbours
WindDegrees ==
    {0, 3600}
    \cup UNION {{WIND_DIRECTION_CONVERSION[i][1] - 1,
                 WIND_DIRECTION_CONVERSION[i][1],
                 WIND_DIRECTION_CONVERSION[i][1] + 1} :
                    i \in 1..Len(WIND_DIRECTION_CONVERSION)}

\* what the callers pass as speed_unit: WeatherConfig.speed_unit in
\* add_forecast, report.temperature_unit in handle_windy
SpeedUnitArgs == {METERS_PER_SECOND, MILES_PER_HOUR, CELSIUS, FAHRENHEIT, None}

InitWind ==
    /\ call = NoCall
    /\ wind = Nil
    /\ InitSkillFixed

NewWind ==
    /\ wind = Nil
    /\ \E speed \in WindSpeeds, deg \in {Nil} \cup {<<d>> : d \in WindDegrees},
       unit \in SpeedUnitArgs :
           /\ wind' = Wind([speed |-> speed, deg |-> deg], unit)
           /\ call' = [fn |-> "Wind"]
    /\ UNCHANGED skill_vars

\* the report holding the Wind is discarded once the response is spoken
DiscardWind ==
    /\ wind # Nil
    /\ wind' = Nil
    /\ call' = NoCall
    /\ UNCHANGED skill_vars

ReadSpeed ==
    /\ wind # Nil
    /\ wind' = Wind_speed(wind)
    /\ call' = [fn |-> "Wind.speed", ret |-> wind'._speed]
    /\ UNCHANGED skill_vars

ReadStrength ==
    /\ wind # Nil
    /\ wind' = Wind_strength(wind)
    /\ call' = [fn |-> "Wind.strength", ret |-> wind'._strength]
    /\ UNCHANGED skill_vars

ReadDirection ==
    /\ wind # Nil
    /\ wind' = Wind_direction(wind)
    /\ call' = [fn |-> "Wind.direction", ret |-> wind'._direction]
    /\ UNCHANGED skill_vars

NextWind ==
    \/ NewWind
    \/ DiscardWind
    \/ ReadSpeed
    \/ ReadStrength
    \/ ReadDirection

SpecWind == InitWind /\ [][NextWind]_vars

(***************************************************************************)
(* Specification SpecConfig: WeatherConfig objects are built, their        *)
(* properties read, and the core configuration they were given changed, in *)
(* any order.                                                              *)
(***************************************************************************)
\* the object numbers
ConfigIds == 1..MaxConfigs

\* the values of the 'units' setting; None when it is absent
UnitSettings == [units : {None, "Fahrenheit", "celsius", "kelvin"}]

SystemUnits == {METRIC, "imperial"}

InitConfig ==
    /\ call = NoCall
    /\ wind = Nil
    /\ weather_config =
           WeatherConfig([system_unit |-> METRIC, latitude |-> 39,
                          longitude |-> -95], [units |-> None])
    /\ location_translations = <<>>
    /\ last = Idle
    /\ scheduled = <<>>
    /\ api = [query_cache |-> <<>>, now |-> 0]
    /\ configs \in
           [ConfigIds ->
               {WeatherConfig([system_unit |-> u, latitude |-> 39,
                               longitude |-> -95], settings) :
                   u \in SystemUnits, settings \in UnitSettings}]

\* a property of object i has been read: the object after the read, the
\* value read, and the cached value the read found
ConfigRead(fn, i, after, ret, found) ==
    /\ configs' = [configs EXCEPT ![i] = after]
    /\ call' = [fn |-> fn, obj |-> i, ret |-> ret, found |-> found]
    /\ UNCHANGED <<wind, weather_config, location_translations, last,
                   scheduled, api>>

ReadTemperatureUnit ==
    \E i \in ConfigIds :
        LET after == WeatherConfig_temperature_unit(configs[i]) IN
        ConfigRead("WeatherConfig.temperature_unit", i, after,
                   after._temperature_unit, configs[i]._temperature_unit)

ReadSpeedUnit ==
    \E i \in ConfigIds :
        LET after == WeatherConfig_speed_unit(configs[i]) IN
        ConfigRead("WeatherConfig.speed_unit", i, after, after._speed_unit,
                   configs[i]._speed_unit)

\* core_config['system_unit'] of object i is changed
SetSystemUnit ==
    \E i \in ConfigIds, u \in SystemUnits :
        /\ configs[i].core_config.system_unit # u
        /\ configs' = [configs EXCEPT ![i].core_config.system_unit = u]
        /\ call' = NoCall
        /\ UNCHANGED <<wind, weather_config, location_translations, last,
                       scheduled, api>>

NextConfig ==
    \/ ReadTemperatureUnit
    \/ ReadSpeedUnit
    \/ SetSystemUnit

SpecConfig == InitConfig /\ [][NextConfig]_vars

(***************************************************************************)
(* Specification SpecCache: requests are made of one OWMApi object while   *)
(* the monotonic clock advances.  The key of the cache is                  *)
(* hash(json.dumps(data, sort_keys=True)), which two requests share when   *)
(* their path and query are equal: the key is the request.  A response of  *)
(* the remote service is the request it answers and the time it was        *)
(* fetched.                                                                *)
(***************************************************************************)
\* src/source/api.py: MINUTES
MINUTES == 60

\* the largest cnt the lookup of a wider forecast tries
CntLimit == 16

\* self.query_cache.get(key, (0, None))
NoEntry == [time |-> 0, resp |-> Nil]

cache_get(query_cache, key) ==
    IF key \in DOMAIN query_cache THEN query_cache[key] ELSE NoEntry

\* the loop of OWMApi.request that looks for a stored forecast of more days
\* than requested, test_req_data being data with cnt raised so far
RECURSIVE wider_cache(_, _)
wider_cache(query_cache, test_req_data) ==
    IF test_req_data.query.cnt < CntLimit
    THEN LET next == [test_req_data EXCEPT !.query.cnt = @ + 1]
             test_cache == cache_get(query_cache, next)
         IN  IF test_cache # NoEntry THEN test_cache
             ELSE wider_cache(query_cache, next)
    ELSE NoEntry

OWMApi_request_no_expiry(obj, data, answer) ==
    LET own == cache_get(obj.query_cache, data)
        cache == IF "cnt" \in DOMAIN data.query /\ data.query.cnt # 0
                    /\ own = NoEntry
                 THEN wider_cache(obj.query_cache, data)
                 ELSE own
        now == obj.now
    IN  IF cache.resp = Nil
        THEN CASE answer = "error" ->
                    [exc |-> HTTPError(500), ret |-> Nil, obj |-> obj,
                     remote_calls |-> 1]
               [] answer = "cod 404" ->
                    [exc |-> HTTPError(404), ret |-> Nil, obj |-> obj,
                     remote_calls |-> 1]
               [] OTHER ->
                    LET resp == [data |-> data, fetched |-> now] IN
                    [exc |-> NoExc, ret |-> resp,
                     obj |-> [obj EXCEPT !.query_cache =
                                 DictSet(@, data,
                                         [time |-> now, resp |-> resp])],
                     remote_calls |-> 1]
        ELSE [exc |-> NoExc, ret |-> cache.resp, obj |-> obj,
              remote_calls |-> 0]

\* OWMApi.request storing what the remote service returned before looking
\* for {"cod":"404" in it
OWMApi_request_stores_first(obj, data, answer) ==
    LET own == cache_get(obj.query_cache, data)
        cache == IF "cnt" \in DOMAIN data.query /\ data.query.cnt # 0
                    /\ own = NoEntry
                 THEN wider_cache(obj.query_cache, data)
                 ELSE own
        now == obj.now
        resp == [data |-> data, fetched |-> now]
        stored == [obj EXCEPT !.query_cache =
                      DictSet(@, data, [time |-> now, resp |-> resp])]
    IN  IF now > cache.time + 15 * MINUTES \/ cache.resp = Nil
        THEN CASE answer = "error" ->
                    [exc |-> HTTPError(500), ret |-> Nil, obj |-> obj,
                     remote_calls |-> 1]
               [] answer = "cod 404" ->
                    [exc |-> HTTPError(404), ret |-> Nil, obj |-> stored,
                     remote_calls |-> 1]
               [] OTHER ->
                    [exc |-> NoExc, ret |-> resp, obj |-> stored,
                     remote_calls |-> 1]
        ELSE [exc |-> NoExc, ret |-> cache.resp, obj |-> obj,
              remote_calls |-> 0]

\* OWMApi.request(data) on the object obj; answer is what the remote
\* service does when it is called: it serves, it answers with a body
\* holding {"cod":"404", or the call raises an HTTPError.  The result is
\* the exception raised, the response returned, the object after the call
\* and the number of remote calls made
OWMApi_request(obj, data, answer) ==
    LET own == cache_get(obj.query_cache, data)
        cache == IF "cnt" \in DOMAIN data.query /\ data.query.cnt # 0
                    /\ own = NoEntry
                 THEN wider_cache(obj.query_cache, data)
                 ELSE own
        now == obj.now
    IN  IF now > cache.time + 15 * MINUTES \/ cache.resp = Nil
        THEN CASE answer = "error" ->
                    [exc |-> HTTPError(500), ret |-> Nil, obj |-> obj,
                     remote_calls |-> 1]
               [] answer = "cod 404" ->
                    [exc |-> HTTPError(404), ret |-> Nil, obj |-> obj,
                     remote_calls |-> 1]
               [] OTHER ->
                    LET resp == [data |-> data, fetched |-> now] IN
                    [exc |-> NoExc, ret |-> resp,
                     obj |-> [obj EXCEPT !.query_cache =
                                 DictSet(@, data,
                                         [time |-> now, resp |-> resp])],
                     remote_calls |-> 1]
        ELSE [exc |-> NoExc, ret |-> cache.resp, obj |-> obj,
              remote_calls |-> 0]

\* the requests made: the current weather and daily forecasts of 14 to 16
\* days of one place
CacheRequests ==
    {[path |-> "/weather", query |-> [q |-> <<"paris">>]]}
    \cup {[path |-> "/forecast/daily",
           query |-> [q |-> <<"paris">>, cnt |-> c]] : c \in 14..CntLimit}

RemoteAnswers == {"served", "cod 404", "error"}

\* the seconds that pass between two requests
Pauses == {450, 451}

InitCache ==
    /\ call = NoCall
    /\ wind = Nil
    /\ weather_config =
           WeatherConfig([system_unit |-> METRIC, latitude |-> 39,
                          longitude |-> -95], [units |-> None])
    /\ location_translations = <<>>
    /\ last = Idle
    /\ scheduled = <<>>
    /\ configs = <<>>
    /\ api = [query_cache |-> <<>>, now |-> 0]

\* call keeps the request, the clock and the cache it found, what the
\* remote service does when called, and what the request did
Request ==
    \E data \in CacheRequests, answer \in RemoteAnswers :
        LET r == OWMApi_request(api, data, answer) IN
        /\ api' = r.obj
        /\ call' = [fn |-> "OWMApi.request", data |-> data, answer |-> answer,
                    now |-> api.now, before |-> api.query_cache,
                    exc |-> r.exc, ret |-> r.ret,
                    remote_calls |-> r.remote_calls]
        /\ UNCHANGED <<wind, weather_config, location_translations, last,
                       scheduled, configs>>

Advance ==
    \E d \in Pauses :
        /\ api.now + d <= MaxNow
        /\ api' = [api EXCEPT !.now = @ + d]
        /\ call' = NoCall
        /\ UNCHANGED <<wind, weather_config, location_translations, last,
                       scheduled, configs>>

NextCache ==
    \/ Request
    \/ Advance

SpecCache == InitCache /\ [][NextCache]_vars

(***************************************************************************)
(* Specification SpecWeek: the summary of handle_week_weather, from        *)
(* "collate forecasts" to the end of the handler, applied to the forecasts *)
(* of seven days.  The handler itself is an action of Spec.                *)
(***************************************************************************)
WeekCategories == {"Clear", "Clouds", "Rain"}

\* the first days of the week and the daily lows and highs, in degrees
WeekStarts == {Today, [day |-> Today.day + 2, hour |-> 0]}
WeekLows == {-10, -9, 5, 10}
WeekHighs == {9, 10, 25}

\* the days the temperatures vary on
MaxVaried == 3

WeekOf(when) ==
    [i \in 1..WeekLength |->
        [day |-> when.day + (i - 1), hour |-> when.hour]]

\* the dicts of the forecasts of a week
WeekForecasts(cats, lows, highs) ==
    [i \in 1..WeekLength |->
        [condition |-> "light " \o cats[i], condition_cat |-> cats[i],
         icon |-> "10d", temp |-> chars_int(highs[i]),
         temp_min |-> chars_int(lows[i]), temp_max |-> chars_int(highs[i])]]

WeekReported(cats, lows, highs, when) ==
    LET days == WeekOf(when)
        r == week_report(WeekForecasts(cats, lows, highs), days, Start)
    IN  /\ call' = [fn |-> "handle_week_weather", cats |-> cats,
                    lows |-> lows, highs |-> highs, days |-> days,
                    exc |-> r.exc, spoken |-> r.s.spoken]
        /\ UNCHANGED <<wind, skill_vars>>

\* a week of any categories
WeekConditions ==
    /\ call = NoCall
    /\ \E cats \in [1..WeekLength -> WeekCategories], when \in WeekStarts :
           WeekReported(cats, [i \in 1..WeekLength |-> 5],
                        [i \in 1..WeekLength |-> 11], when)

\* a week of any temperatures on its first days
WeekTemperatures ==
    /\ call = NoCall
    /\ \E lows \in [1..MaxVaried -> WeekLows],
          highs \in [1..MaxVaried -> WeekHighs] :
           WeekReported([i \in 1..WeekLength |-> "Clear"],
                        [i \in 1..WeekLength |->
                            IF i <= MaxVaried THEN lows[i] ELSE 5],
                        [i \in 1..WeekLength |->
                            IF i <= MaxVaried THEN highs[i] ELSE 11],
                        Today)

NextWeek ==
    \/ WeekConditions
    \/ WeekTemperatures
    \/ Return

SpecWeek == InitUtil /\ [][NextWeek]_vars

(***************************************************************************)
(* Specification SpecNames: one OWMApi object is asked by location name,   *)
(* one lookup after another, and keeps its location_translations.  The     *)
(* provider answers all requests of one lookup the same way.               *)
(* weather_at_place and three_hours_forecast run to their end in one step; *)
(* _daily_forecast_at_location is followed one pass of its while loop at a *)
(* time, up to MaxRequests requests.  call is the lookup: the name asked,  *)
(* the names orig_name and name of the loop, the requests made so far, and *)
(* once it is done, how it ended.                                          *)
(***************************************************************************)
\* the requests of one lookup are followed up to MaxRequests
MaxRequests == 4

\* the provider as a lookup by name sees it: it knows some of the names, and
\* serves, or fails with an authentication or a server error
NameWorlds ==
    [http : {200, 401, 500},
     found : SUBSET Names,
     days : {0..13},
     first_hour : {0},
     humidity : {40},
     cond : {"light rain"}]

NoLookup ==
    [fn |-> "none", asked |-> <<>>, orig_name |-> <<>>, name |-> <<>>,
     world |-> Nil, requests |-> <<>>, exc |-> NoExc, done |-> TRUE]

InitNames ==
    /\ call = NoLookup
    /\ wind = Nil
    /\ InitSkillFixed

\* a lookup that runs to its end in one step has been made
LookedUp(fn, name, world, r) ==
    /\ call' = [fn |-> fn, asked |-> name, orig_name |-> name, name |-> name,
                world |-> world, requests |-> r.s.requests, exc |-> r.exc,
                done |-> TRUE]
    /\ location_translations' = r.s.lt
    /\ UNCHANGED <<wind, weather_config, last, scheduled, lib_vars>>

Lookup_weather_at_place ==
    /\ call.done
    /\ \E name \in Names, world \in NameWorlds :
           LookedUp("weather_at_place", name, world,
                    weather_at_place(name, 0, 0, Start, world))

Lookup_three_hours_forecast ==
    /\ call.done
    /\ \E name \in Names, world \in NameWorlds :
           LookedUp("three_hours_forecast", name, world,
                    three_hours_forecast(name, 0, 0, Start, world))

\* _daily_forecast_at_location up to its while loop
Enter_daily_forecast_at_location ==
    /\ call.done
    /\ \E name \in Names, world \in NameWorlds :
        LET name1 == IF name \in DOMAIN location_translations
                     THEN location_translations[name] ELSE name
        IN  call' = [fn |-> "_daily_forecast_at_location", asked |-> name,
                     orig_name |-> name1, name |-> name1, world |-> world,
                     requests |-> <<>>, exc |-> NoExc, done |-> FALSE]
    /\ UNCHANGED <<wind, skill_vars>>

\* the test of the while loop of _daily_forecast_at_location and, when the
\* name is not empty, one pass of its body with limit 14: the lookup after it
daily_forecast_pass(frame, lt) ==
    IF frame.name = <<>>
    THEN [frame |-> [frame EXCEPT !.exc = LocationNotFoundError,
                                  !.done = TRUE],
          lt |-> lt]
    ELSE LET r == request([path |-> "/forecast/daily",
                           query |-> [q |-> frame.name, cnt |-> 14]],
                          [Start EXCEPT !.requests = frame.requests],
                          frame.world)
             asked == [frame EXCEPT !.requests = r.s.requests]
         IN  IF ~Raised(r)
             THEN [frame |-> [asked EXCEPT !.done = TRUE],
                   lt |-> DictSet(lt, frame.orig_name, frame.name)]
             ELSE IF r.exc.status = 404
             THEN [frame |-> [asked EXCEPT
                                 !.name = drop_last_word(frame.name)],
                   lt |-> lt]
             ELSE [frame |-> asked, lt |-> lt]

Pass_daily_forecast_at_location ==
    /\ ~call.done
    /\ Len(call.requests) < MaxRequests
    /\ LET after == daily_forecast_pass(call, location_translations)
       IN  /\ call' = after.frame
           /\ location_translations' = after.lt
    /\ UNCHANGED <<wind, weather_config, last, scheduled, lib_vars>>

NextNames ==
    \/ Lookup_weather_at_place
    \/ Lookup_three_hours_forecast
    \/ Enter_daily_forecast_at_location
    \/ Pass_daily_forecast_at_location

SpecNames == InitNames /\ [][NextNames]_vars

(***************************************************************************)
(* Specification Spec: the skill answers one query after another.  A       *)
(* handler runs to its end in one step, on a message of the intent service *)
(* and against the provider as it answers during that query; last records  *)
(* the query until the next one starts.                                    *)
(***************************************************************************)
Whens ==
    {Nil, Today, [day |-> Today.day, hour |-> 15],
     [day |-> Today.day + 2, hour |-> 0]}

\* the messages of an intent with a Unit slot, and of one without
UnitMessages ==
    [Location : {NoneName} \cup Names, Unit : {None, "fahrenheit", "celsius"},
     when : Whens]

Messages == {m \in UnitMessages : m.Unit = None}

Worlds ==
    [http : {200, 401, 500},
     found : {{}, {<<"paris">>}, Names},
     days : {{}, 0..13},
     first_hour : {0, 18},
     humidity : {40},
     cond : {"light rain"}]

HumidityWorlds ==
    [http : {200, 401, 500},
     found : {{}, {<<"paris">>}, Names},
     days : {{}, 0..13},
     first_hour : {0},
     humidity : {0, 40},
     cond : {"light rain"}]

\* the messages of the two day forecast, and the provider with a day
\* missing from its daily forecast
TwoDayMessages ==
    [Location : {NoneName, <<"paris">>}, Unit : {None}, when : {Nil},
     days : {<<>>, <<[day |-> Today.day + 1, hour |-> 0],
                     [day |-> Today.day + 3, hour |-> 0]>>}]

MultidayWorlds ==
    [http : {200, 401, 500},
     found : {{}, Names},
     days : {0..13, (0..13) \ {1}, {0}, {}},
     first_hour : {0},
     humidity : {40},
     cond : {"light rain"}]

\* the vocabulary of the units
UnitVoc == {<<"fahrenheit", "Fahrenheit">>, <<"celsius", "Celsius">>}

Envs ==
    [templates : {{}, {"humidity", "percentage.number"}}, voc : {UnitVoc}]

\* the handler has run on message, against the provider world, with result r
Handled(handler, message, world, r) ==
    /\ weather_config' = r.s.cfg
    /\ location_translations' = r.s.lt
    /\ scheduled' = r.s.scheduled
    /\ last' = [handler |-> handler, message |-> message, world |-> world,
                escaped |-> r.exc,
                spoken |-> r.s.spoken, emitted |-> r.s.emitted,
                gui |-> r.s.gui, requests |-> r.s.requests,
                temp_reads |-> r.s.temp_reads, winds |-> r.s.winds,
                no_data |-> r.s.no_data, handovers |-> r.s.handovers,
                report |-> r.s.report]
    /\ UNCHANGED <<call, wind, lib_vars>>

Init ==
    /\ call = NoCall
    /\ wind = Nil
    /\ InitSkill

HandleCurrentWeather ==
    /\ last = Idle
    /\ \E message \in Messages, world \in Worlds, env \in Envs :
           Handled("handle_current_weather", message, world,
                   handle_current_weather(message, Start, world, env))

HandleForecast ==
    /\ last = Idle
    /\ \E message \in Messages, world \in Worlds, env \in Envs :
           Handled("handle_forecast", message, world,
                   handle_forecast(message, Start, world, env))

HandleCurrentTemperature ==
    /\ last = Idle
    /\ \E message \in UnitMessages, world \in Worlds, env \in Envs :
           Handled("handle_current_temperature", message, world,
                   handle_current_temperature(message, Start, world, env))

HandleHumidity ==
    /\ last = Idle
    /\ \E message \in Messages, world \in HumidityWorlds, env \in Envs :
           Handled("handle_humidity", message, world,
                   handle_humidity(message, Start, world, env))

HandleWindy ==
    /\ last = Idle
    /\ \E message \in Messages, world \in Worlds, env \in Envs :
           Handled("handle_windy", message, world,
                   handle_windy(message, Start, world, env))

HandleThreeDayForecast ==
    /\ last = Idle
    /\ \E message \in Messages, world \in MultidayWorlds, env \in Envs :
           /\ message.when = Nil
           /\ Handled("handle_three_day_forecast", message, world,
                      handle_three_day_forecast(message, Start, world, env))

HandleTwoDayForecast ==
    /\ last = Idle
    /\ \E message \in TwoDayMessages, world \in MultidayWorlds, env \in Envs :
           Handled("handle_two_day_forecast", message, world,
                   handle_two_day_forecast(message, Start, world, env))

HandleWeekWeather ==
    /\ last = Idle
    /\ \E message \in Messages, world \in Worlds, env \in Envs :
           Handled("handle_week_weather", message, world,
                   handle_week_weather(message, Start, world, env))

HandleIsItRaining ==
    /\ last = Idle
    /\ \E message \in Messages, world \in Worlds, env \in Envs :
           Handled("handle_isit_raining", message, world,
                   handle_isit_condition(message, "rain", "raining", Start,
                                         world, env))

\* the response is spoken and the query over; a handler that does not
\* return leaves the skill in it
EndQuery ==
    /\ last # Idle
    /\ last.escaped # NoReturn
    /\ last' = Idle
    /\ UNCHANGED <<call, wind, weather_config, location_translations,
                   scheduled, lib_vars>>

Next ==
    \/ HandleCurrentWeather
    \/ HandleForecast
    \/ HandleCurrentTemperature
    \/ HandleHumidity
    \/ HandleWindy
    \/ HandleThreeDayForecast
    \/ HandleTwoDayForecast
    \/ HandleWeekWeather
    \/ HandleIsItRaining
    \/ EndQuery

Spec == Init /\ [][Next]_vars

(***************************************************************************)
(* Specification SpecSchedule: the skill is initialised, answers           *)
(* current-weather and forecast queries, calls schedule_for_daily_use, and *)
(* the scheduler runs prime_weather_cache while an event is scheduled.     *)
(* call records a call that is not a query until its caller has taken the  *)
(* result, and a query starts when no such call is under way.              *)
(***************************************************************************)
\* the provider as priming the cache sees it
ScheduleWorlds ==
    [http : {200, 401, 500},
     found : {{}, {City}},
     days : {0..13},
     first_hour : {0},
     humidity : {40},
     cond : {"light rain"}]

ScheduleEnvs == [templates : {{}}, voc : {UnitVoc}]

\* a call outside a query has been made, with result r
Scheduled(fn, world, r) ==
    /\ weather_config' = r.s.cfg
    /\ location_translations' = r.s.lt
    /\ scheduled' = r.s.scheduled
    /\ call' = [fn |-> fn, world |-> world, before |-> scheduled,
                exc |-> r.exc, requests |-> r.s.requests]
    /\ UNCHANGED <<wind, last, lib_vars>>

Initialize ==
    /\ last = Idle
    /\ call = NoCall
    /\ \E world \in ScheduleWorlds, env \in ScheduleEnvs :
           Scheduled("initialize", world, initialize(Start, world, env))

Call_schedule_for_daily_use ==
    /\ last = Idle
    /\ \E world \in ScheduleWorlds, env \in ScheduleEnvs :
           Scheduled("schedule_for_daily_use", world,
                     schedule_for_daily_use(Start, world, env))

\* a scheduled event is due
Run_prime_weather_cache ==
    /\ last = Idle
    /\ scheduled # <<>>
    /\ \E world \in ScheduleWorlds, env \in ScheduleEnvs :
           Scheduled("prime_weather_cache", world,
                     prime_weather_cache(Start, world, env))

\* a query starts when no other call is under way
QueryCurrentWeather == call = NoCall /\ HandleCurrentWeather

QueryForecast == call = NoCall /\ HandleForecast

NextSchedule ==
    \/ Initialize
    \/ Call_schedule_for_daily_use
    \/ Run_prime_weather_cache
    \/ Return
    \/ QueryCurrentWeather
    \/ QueryForecast
    \/ EndQuery

SpecSchedule == Init /\ [][NextSchedule]_vars

(***************************************************************************)
(* Claims                                                                  *)
(***************************************************************************)
PeriodOfHour(h) ==
    CASE h \in 1..4 -> "early morning"
      [] h \in 5..11 -> "morning"
      [] h \in 12..16 -> "afternoon"
      [] h \in 17..19 -> "evening"
      [] OTHER -> "overnight"

\* C1: to_time_period and the skill's __to_time_period map every hour 0..23
\* to exactly one of the five buckets and never to None: 1-4 early morning,
\* 5-11 morning, 12-16 afternoon, 17-19 evening, 20-23 and 0 overnight.
C1_PeriodTotal ==
    call.fn \in {"to_time_period", "__to_time_period"} =>
        /\ call.ret # None
        /\ call.ret = PeriodOfHour(call.when.hour)

C1_Witness ==
    /\ call.fn = "__to_time_period"
    /\ call.when.hour = 0
    /\ call.ret = "overnight"

\* the offset in calendar days of the date __to_day was applied to
DaysDiff == call.when.day - call.now.day

\* C8: __to_day with preface=True omits the "on <date>" preface exactly when
\* the calendar-day offset of when from now is -1, 0 or +1 and includes it
\* for every other offset; with preface=False it is never added.
C8_PrefaceOffsets ==
    call.fn = "__to_day" =>
        (Head(call.ret) = translate_on_date
            <=> (call.preface /\ DaysDiff \notin {-1, 0, 1}))

C8_Witness ==
    /\ call.fn = "__to_day"
    /\ call.preface
    /\ DaysDiff = 0 - 2
    /\ Head(call.ret) = translate_on_date

\* the date as spoken before any shortening
Unshortened ==
    (IF call.preface /\ DaysDiff \notin {-1, 0, 1}
     THEN <<translate_on_date>> ELSE <<>>)
    \o nice_date(call.when, call.now, call.fmt)

AbsDiff == IF DaysDiff < 0 THEN 0 - DaysDiff ELSE DaysDiff

\* C9: __to_day shortens the speakable date to its part before the first
\* comma exactly when the date lies within 6 days of now; a date more than
\* 6 days away, in the future or in the past, is returned unshortened.
C9_ShortenWithinSixDays ==
    call.fn = "__to_day" =>
        call.ret = IF AbsDiff <= 6 THEN split_comma_first(Unshortened)
                   ELSE Unshortened

\* a date 8 days before now comes back as its weekday alone
C9_WitnessPast ==
    /\ call.fn = "__to_day"
    /\ DaysDiff = 0 - 8
    /\ ~call.preface
    /\ Len(Unshortened) > 1
    /\ call.ret = <<Head(Unshortened)>>

\* what the code does: every date up to 6 days ahead, and every past date,
\* is shortened
C9_ShortenUpToSixAhead ==
    call.fn = "__to_day" =>
        call.ret = IF DaysDiff <= 6 THEN split_comma_first(Unshortened)
                   ELSE Unshortened

Range(s) == {s[i] : i \in 1..Len(s)}

\* a..b is a maximal block of consecutive members of S, of length >= 2
IsMaximalRun(S, a, b) ==
    /\ a < b
    /\ \A x \in a..b : x \in S
    /\ a - 1 \notin S
    /\ b + 1 \notin S

BaseOfCall ==
    LET condition == call.report.condition
        expected == <<condition, capitalize(call.exp)>> \in call.env.voc
        alternative ==
            <<condition, capitalize(call.noun) \o "Alternatives">>
                \in call.env.voc
    IN  IF expected THEN "affirmative.condition"
        ELSE IF call.report.time # None
        THEN (IF alternative THEN "cond.alternative"
              ELSE "no.cond.predicted")
        ELSE (IF alternative THEN call.exp \o ".alternative"
              ELSE "no." \o call.noun \o ".predicted")

\* the prefixes a selected name may carry
DialogPrefixes ==
    {at \o forecast \o local :
        at \in {"", "at.time."}, forecast \in {"", "forecast."},
        local \in {"", "local."}}

\* C4: for a non-None report __select_condition_dialog picks as base
\* template affirmative.condition whenever the condition matches the
\* expected vocabulary; otherwise, with a time-of-day, cond.alternative when
\* the condition matches the <Noun>Alternatives vocabulary and
\* no.cond.predicted when not; otherwise <exp>.alternative when it matches
\* and no.<noun>.predicted when not.  A None report yields exactly
\* "do not know", with no prefix.
C4_BaseTemplate ==
    call.fn = "__select_condition_dialog" =>
        IF call.report = Nil THEN call.ret = "do not know"
        ELSE \E prefix \in DialogPrefixes : call.ret = prefix \o BaseOfCall

C4_Witness ==
    /\ call.fn = "__select_condition_dialog"
    /\ call.report # Nil
    /\ call.report.time # None
    /\ call.noun = "rain"
    /\ <<call.report.condition, "Raining">> \in call.env.voc
    /\ <<call.report.condition, "RainAlternatives">> \in call.env.voc
    /\ call.ret = "forecast.affirmative.condition"

\* C5: __select_condition_dialog builds the final name as
\* [at.time.][forecast.][local.]<base> in that nesting order: local. is
\* present iff the message has no Location slot, forecast. iff report.day
\* is not None, and at.time. iff report.time is not None and "at.time."
\* before the name built so far is a registered template; when it is not
\* registered the name without at.time. is returned.
C5_PrefixNesting ==
    (call.fn = "__select_condition_dialog" /\ call.report # Nil) =>
        LET local == IF call.message.Location = NoneName THEN "local."
                     ELSE ""
            forecast == IF call.report.day # Nil THEN "forecast." ELSE ""
            built == forecast \o local \o BaseOfCall
            at == IF call.report.time # None
                     /\ ("at.time." \o built) \in call.env.templates
                  THEN "at.time." ELSE ""
        IN  call.ret = at \o built

C5_Witness ==
    /\ call.fn = "__select_condition_dialog"
    /\ call.ret = "at.time.forecast.local.no.cond.predicted"

C5_WitnessNotRegistered ==
    /\ call.fn = "__select_condition_dialog"
    /\ call.report # Nil
    /\ call.report.time # None
    /\ call.env.templates = {}
    /\ call.ret = "forecast.local.cond.alternative"

\* the units handed to the provider's temperatures during the last query
UnitsRead == {last.temp_reads[i] : i \in 1..Len(last.temp_reads)}

\* C2: for any temperature query, when the message carries no Unit slot and
\* the system measurement default is metric, the report's temperature_unit
\* used to read provider temperatures is celsius; when the message carries
\* a Unit slot matching the Fahrenheit vocabulary it is fahrenheit,
\* whatever the setting or system default is.
C2_TemperatureUnit ==
    (last.handler = "handle_current_temperature" /\ last.temp_reads # <<>>) =>
        /\ (/\ last.message.Unit = None
            /\ weather_config.core_config.system_unit = METRIC
            /\ weather_config.settings.units = None)
               => (UnitsRead = {CELSIUS}
                   /\ last.report.temperature_unit = CELSIUS)
        /\ <<last.message.Unit, title(FAHRENHEIT)>> \in UnitVoc
               => (UnitsRead = {FAHRENHEIT}
                   /\ last.report.temperature_unit = FAHRENHEIT)

\* a query naming fahrenheit reads the provider's temperatures with no unit
C2_WitnessUnitLost ==
    /\ last.handler = "handle_current_temperature"
    /\ last.message.Unit = FAHRENHEIT
    /\ last.temp_reads = <<None>>
    /\ last.report.temperature_unit = None
    /\ last.escaped = Exc("ValueError")

\* the provider answered the last query of a name, by weather_at_location
\* or _daily_forecast_at_location, with 404 down to its first word, so that
\* OWMApi raised LocationNotFoundError
LocationNotFoundRaised ==
    /\ last.requests # <<>>
    /\ last.world.http = 200
    /\ last.requests[Len(last.requests)].path
           \in {"/weather", "/forecast/daily"}
    /\ LET query == last.requests[Len(last.requests)].query IN
       /\ "q" \in DOMAIN query
       /\ Len(query.q) = 1
       /\ query.q # NoneName
       /\ query.q \notin last.world.found

\* C3: for every intent handler that queries the provider, a
\* LocationNotFoundError raised by the provider results in the
\* location.not.found dialog being spoken, not the generic
\* cant.get.forecast dialog, and no exception escapes the handler.
C3_LocationNotFoundSpoken ==
    (last # Idle /\ LocationNotFoundRaised) =>
        /\ last.escaped = NoExc
        /\ \E i \in 1..Len(last.spoken) :
               last.spoken[i] = "location.not.found"
        /\ \A i \in 1..Len(last.spoken) :
               last.spoken[i] # "cant.get.forecast"

\* handle_current_weather, whose body is in a try statement, does so
C3_WitnessCaught ==
    /\ last.handler = "handle_current_weather"
    /\ LocationNotFoundRaised
    /\ last.escaped = NoExc
    /\ last.spoken = <<"location.not.found">>

CompassOf(d) ==
    CASE d < 225 \/ d >= 3375 -> "N"
      [] 225 <= d /\ d < 675 -> "NE"
      [] 675 <= d /\ d < 1125 -> "E"
      [] 1125 <= d /\ d < 1575 -> "SE"
      [] 1575 <= d /\ d < 2025 -> "S"
      [] 2025 <= d /\ d < 2475 -> "SW"
      [] 2475 <= d /\ d < 2925 -> "W"
      [] OTHER -> "NW"

\* C7: Wind.direction is total on degrees 0..360 and returns exactly one of
\* the 8 compass names: degree >= 337.5 gives N, otherwise the direction of
\* the first boundary strictly greater than the degree, a degree equal to a
\* boundary belonging to the next bucket; with no 'deg' the direction is
\* None.
C7_DirectionBuckets ==
    call.fn = "Wind.direction" =>
        IF wind._wind.deg = Nil THEN call.ret = None
        ELSE /\ call.ret \in {"N", "NE", "E", "SE", "S", "SW", "W", "NW"}
             /\ call.ret = CompassOf(wind._wind.deg[1])

C7_Witness ==
    /\ call.fn = "Wind.direction"
    /\ wind._wind.deg = <<225>>
    /\ call.ret = "NE"

C7_WitnessNoDeg ==
    /\ call.fn = "Wind.direction"
    /\ wind._wind.deg = Nil
    /\ call.ret = None

\* the unit the measurement system of object i defaults to
DefaultTemperatureUnit(i) ==
    IF configs[i].core_config.system_unit = METRIC THEN CELSIUS
    ELSE FAHRENHEIT

\* C11: WeatherConfig.temperature_unit resolves as the stored 'units'
\* setting when it is fahrenheit or celsius in any case, and otherwise,
\* the setting being absent or not recognised, as the measurement-system
\* default (metric gives celsius, anything else fahrenheit); the result is
\* celsius or fahrenheit, never None.
C11_TemperatureUnitResolved ==
    (call.fn = "WeatherConfig.temperature_unit" /\ call.found = None) =>
        LET setting == lower(configs[call.obj].settings.units) IN
        /\ call.ret \in {CELSIUS, FAHRENHEIT}
        /\ call.ret = IF setting \in {CELSIUS, FAHRENHEIT} THEN setting
                      ELSE DefaultTemperatureUnit(call.obj)

\* a setting that is not recognised leaves the unit None
C11_WitnessUnrecognised ==
    /\ call.fn = "WeatherConfig.temperature_unit"
    /\ configs[call.obj].settings.units = "kelvin"
    /\ call.ret = None

ResolvedSpeedUnit == WeatherConfig_speed_unit(weather_config)._speed_unit

\* C13: wind speed is unit-converted and rounded exactly once, with the
\* resolved speed unit: every Wind the skill builds, in add_forecast and in
\* handle_windy, is given a speed_unit that is WeatherConfig.speed_unit
\* (meters per second or miles per hour), and any number of reads of
\* Wind.speed return the same value, round(raw * 2.23694) for miles per
\* hour and round(raw) otherwise, the multiplier not being applied again.
C13_WindSpeedOnce ==
    /\ (wind # Nil /\ wind._speed # Nil) =>
           wind._speed = IF wind.speed_unit = MILES_PER_HOUR
                         THEN <<round_speed_mph(wind._wind.speed)>>
                         ELSE <<round_speed(wind._wind.speed)>>
    /\ last # Idle =>
           \A i \in 1..Len(last.winds) :
               LET w == last.winds[i] IN
               /\ w.speed_unit \in {METERS_PER_SECOND, MILES_PER_HOUR}
               /\ w.speed_unit = ResolvedSpeedUnit
               /\ w._speed # Nil =>
                      w._speed = IF ResolvedSpeedUnit = MILES_PER_HOUR
                                 THEN <<round_speed_mph(w._wind.speed)>>
                                 ELSE <<round_speed(w._wind.speed)>>

\* handle_windy on a device of the imperial system speaks the speed in m/s
C13_WitnessWindy ==
    /\ last.handler = "handle_windy"
    /\ weather_config.core_config.system_unit = "imperial"
    /\ last.escaped = NoExc
    /\ Len(last.winds) = 1
    /\ last.winds[1].speed_unit = None
    /\ last.winds[1]._speed = <<round_speed(last.winds[1]._wind.speed)>>

\* the days a multi-day forecast query asks for
DaysAsked ==
    IF last.handler = "handle_three_day_forecast"
    THEN [i \in 1..3 |-> [day |-> Today.day + (i - 1), hour |-> 0]]
    ELSE IF last.message.days # <<>> THEN last.message.days
    ELSE [i \in 1..2 |-> [day |-> Today.day + (i - 1), hour |-> 0]]

\* the provider answers the query and knows the place asked for, which is
\* the device's position when the query names none
ProviderServes ==
    /\ last.world.http = 200
    /\ \/ /\ last.message.Location = NoneName
          /\ weather_config.latitude # 0
          /\ weather_config.longitude # 0
       \/ last.message.Location \in last.world.found

\* C14: in report_multiday_forecast a day for which the provider has no
\* forecast is not spoken and is listed in the single final no.forecast
\* response, while every other requested day, the days after the missing
\* one included, is still spoken; the days listed are exactly the days
\* lacking data, and no exception is raised.
C14_MissingDaysListed ==
    (/\ last # Idle
     /\ last.handler \in {"handle_three_day_forecast",
                          "handle_two_day_forecast"}
     /\ ProviderServes) =>
        LET asked == DaysAsked
            missing == SelectSeq(asked,
                                 LAMBDA d : d.day \notin last.world.days)
            forecasts == SelectSeq(last.spoken,
                                   LAMBDA d : d \in {"forecast.weather",
                                                     "forecast.local.weather"})
            no_report == [i \in 1..Len(missing) |->
                             to_day(missing[i], Now, FALSE,
                                    "date_full_no_year")]
        IN  /\ last.escaped = NoExc
            /\ Len(forecasts) = Len(asked) - Len(missing)
            /\ \A i \in 1..Len(last.no_data) :
                   last.no_data[i].day \in
                       {<<w>> \o join_list(no_report, "and", ",") :
                           w \in {"on", "dialog:on"}}
            /\ Len(last.no_data) = IF missing = <<>> THEN 0 ELSE 1

\* the three day forecast, tomorrow missing at the provider: nothing is
\* spoken, neither the days that have a forecast nor the one that has none
C14_WitnessNothingSpoken ==
    /\ last.handler = "handle_three_day_forecast"
    /\ ProviderServes
    /\ last.world.days = (0..13) \ {1}
    /\ last.escaped = NoExc
    /\ last.spoken = <<>>
    /\ last.no_data = <<>>

\* C15: __api_error classifies the provider's failures: a
\* LocationNotFoundError speaks location.not.found, an HTTP error of status
\* 401 emits mycroft.not.paired on the bus and speaks nothing, and every
\* other HTTP error speaks the generic cant.get.forecast and emits nothing;
\* re-pairing is triggered by 401 only.
C15_ApiErrorClasses ==
    call.fn = "__api_error" =>
        /\ call.exc = NoExc
        /\ call.e.type = "LocationNotFoundError" =>
               call.spoken = <<"location.not.found">> /\ call.emitted = <<>>
        /\ (call.e.type = "HTTPError" /\ call.e.status = 401) =>
               call.spoken = <<>> /\ call.emitted = <<"mycroft.not.paired">>
        /\ (call.e.type = "HTTPError" /\ call.e.status # 401) =>
               call.spoken = <<"cant.get.forecast">> /\ call.emitted = <<>>
        /\ call.emitted # <<>> =>
               call.e.type = "HTTPError" /\ call.e.status = 401

\* an HTTP error of another status of the 4xx class has been classified
C15_Witness ==
    /\ call.fn = "__api_error"
    /\ call.e = HTTPError(403)
    /\ call.spoken = <<"cant.get.forecast">>

\* the request with its cnt replaced
WithCnt(data, c) == [data EXCEPT !.query.cnt = c]

\* the entry of the cache a request is answered from: its own, else for a
\* request with a cnt the stored one of the nearest larger cnt
EntryUsed(query_cache, data) ==
    LET own == cache_get(query_cache, data)
        wider == IF "cnt" \in DOMAIN data.query
                 THEN {c \in (data.query.cnt + 1)..CntLimit :
                          WithCnt(data, c) \in DOMAIN query_cache}
                 ELSE {}
    IN  IF own # NoEntry THEN own
        ELSE IF wider # {}
        THEN query_cache[WithCnt(data, CHOOSE c \in wider :
                                           \A d \in wider : c <= d)]
        ELSE NoEntry

\* the statement of C16 as it stands: OWMApi.request caching: over any
\* sequence of requests, a request whose path and query are identical to
\* one fetched successfully at most 15 minutes (900 s of monotonic time)
\* earlier returns that stored response and makes no remote call; a request
\* with no stored entry, or whose entry is older than 15 minutes, makes
\* exactly one remote call and stores the new response with the current
\* time; no response older than 15 minutes is ever returned from the cache.
C16_IdenticalRequestsOnly ==
    call.fn = "OWMApi.request" =>
        LET own == cache_get(call.before, call.data)
            age == call.now - own.time
        IN  /\ (own # NoEntry /\ age <= 900) =>
                   /\ call.remote_calls = 0
                   /\ call.exc = NoExc
                   /\ call.ret = own.resp
            /\ (own = NoEntry \/ age > 900) =>
                   /\ call.remote_calls = 1
                   /\ call.exc = NoExc =>
                          cache_get(api.query_cache, call.data) =
                              [time |-> call.now, resp |-> call.ret]
            /\ call.remote_calls = 0 => call.now - call.ret.fetched <= 900

\* C16: OWMApi.request caching, over any sequence of requests: a request
\* is answered from its own stored entry or, when it has none and carries
\* a cnt, from the stored entry of the same request with the nearest larger
\* cnt (up to 16).  When that entry was fetched at most 15 minutes (900 s
\* of monotonic time) earlier, its response is returned, no remote call is
\* made and the cache is left as it was.  When there is no such entry or it
\* is older than 15 minutes, exactly one remote call is made, and when it
\* succeeds its response is returned and stored under the request itself
\* with the current time; when it fails nothing is stored.  No response
\* older than 15 minutes is ever returned from the cache.
C16_CacheWithWiderForecasts ==
    call.fn = "OWMApi.request" =>
        LET used == EntryUsed(call.before, call.data)
            age == call.now - used.time
        IN  /\ (used # NoEntry /\ age <= 900) =>
                   /\ call.remote_calls = 0
                   /\ call.exc = NoExc
                   /\ call.ret = used.resp
                   /\ api.query_cache = call.before
            /\ (used = NoEntry \/ age > 900) =>
                   /\ call.remote_calls = 1
                   /\ call.exc = NoExc =>
                          /\ call.ret = [data |-> call.data,
                                         fetched |-> call.now]
                          /\ api.query_cache =
                                 DictSet(call.before, call.data,
                                         [time |-> call.now,
                                          resp |-> call.ret])
                   /\ call.exc # NoExc => api.query_cache = call.before
            /\ call.remote_calls = 0 => call.now - call.ret.fetched <= 900

\* a forecast of 14 days, never fetched, is answered with the forecast of
\* 16 days fetched exactly 15 minutes earlier, no remote call being made
C16_WitnessWiderForecast ==
    /\ call.fn = "OWMApi.request"
    /\ "cnt" \in DOMAIN call.data.query
    /\ call.data.query.cnt = 14
    /\ call.data \notin DOMAIN call.before
    /\ WithCnt(call.data, 15) \notin DOMAIN call.before
    /\ WithCnt(call.data, 16) \in DOMAIN call.before
    /\ call.now - call.before[WithCnt(call.data, 16)].time = 900
    /\ call.remote_calls = 0
    /\ call.ret.data = WithCnt(call.data, 16)

\* the names asked of a provider that knows the names in found, when a
\* name not found is asked again with its last word removed
RECURSIVE Shortenings(_, _)
Shortenings(name, found) ==
    IF name = <<>> THEN <<>>
    ELSE IF name \in found THEN <<name>>
    ELSE <<name>> \o Shortenings(drop_last_word(name), found)

\* C17: every provider operation queried by location name (weather_at_place,
\* three_hours_forecast, daily_forecast with no coordinates) reacts to a
\* 404 answer by asking again with the last word of the name removed, until
\* a request succeeds or the name is empty, when LocationNotFoundError is
\* raised; a name of n words causes at most n requests.
C17_ShortenOnNotFound ==
    (/\ call.fn \in {"weather_at_place", "three_hours_forecast",
                     "daily_forecast"}
     /\ call.world.http = 200) =>
        LET expected == Shortenings(call.name, call.world.found)
            asked == [i \in 1..Len(call.requests) |->
                         call.requests[i].query.q]
        IN  /\ asked = expected
            /\ Len(call.requests) <= Len(call.name)
            /\ call.exc = IF expected[Len(expected)] \in call.world.found
                          THEN NoExc
                          ELSE LocationNotFoundError

\* three_hours_forecast for a name whose first word alone the provider
\* knows: one request, and the 404 goes to the caller
C17_WitnessNoRetry ==
    /\ call.fn = "three_hours_forecast"
    /\ call.world.http = 200
    /\ Len(call.name) = 2
    /\ drop_last_word(call.name) \in call.world.found
    /\ call.name \notin call.world.found
    /\ Len(call.requests) = 1
    /\ call.exc = HTTPError(404)

\* weather_at_place and daily_forecast do shorten the name
C17_ShortenOnNotFoundButThreeHours ==
    (/\ call.fn \in {"weather_at_place", "daily_forecast"}
     /\ call.world.http = 200) =>
        LET expected == Shortenings(call.name, call.world.found)
            asked == [i \in 1..Len(call.requests) |->
                         call.requests[i].query.q]
        IN  /\ asked = expected
            /\ Len(call.requests) <= Len(call.name)
            /\ call.exc = IF expected[Len(expected)] \in call.world.found
                          THEN NoExc
                          ELSE LocationNotFoundError

(***************************************************************************)
(* The weekly summary.  cats are the categories of the seven days, days    *)
(* the days, and the texts what handle_week_weather speaks.                *)
(***************************************************************************)
\* the days, from 0, of a category
DaysOf(cats, c) == {i \in 0..(Len(cats) - 1) : cats[i + 1] = c}

\* a category on the greatest number of days, the one first met on a tie
PrimaryCategory(cats) ==
    CHOOSE c \in Range(cats) :
        /\ \A o \in Range(cats) :
               Cardinality(DaysOf(cats, o)) <= Cardinality(DaysOf(cats, c))
        /\ \A o \in Range(cats) :
               Cardinality(DaysOf(cats, o)) = Cardinality(DaysOf(cats, c)) =>
                   \A i \in DaysOf(cats, o) :
                       \E j \in DaysOf(cats, c) : j <= i

\* the day, from 0, a spoken day names
IndexOfDay(days, text) ==
    CHOOSE i \in 0..(Len(days) - 1) : week_day(days, i) = text

\* the from/to periods of a text, as pairs of days
PeriodsOf(text, days) ==
    LET periods == SelectSeq(text, LAMBDA ph :
                       ph.name = "weekly.conditions.seq.period")
    IN  [k \in 1..Len(periods) |->
            <<IndexOfDay(days, periods[k].from),
              IndexOfDay(days, periods[k].to)>>]

\* the first sentence is the one the primary category calls for
FirstSentenceOfPrimary(cats, days, text) ==
    LET primary == PrimaryCategory(cats)
        on == DaysOf(cats, primary)
        runs == {ab \in on \X on : IsMaximalRun(on, ab[1], ab[2])}
        periods == PeriodsOf(text, days)
    IN  /\ Len(text) >= 2
        /\ text[2].condition = speak_category[primary]
        /\ text[2].name =
               IF 2 * Cardinality(on) >= 7
               THEN "weekly.conditions.mostly.one"
               ELSE IF runs # {} THEN "weekly.conditions.seq.start"
               ELSE "weekly.conditions.some.days"
        /\ text[2].name = "weekly.conditions.seq.start" =>
               /\ Range(periods) = runs
               /\ Len(periods) = Cardinality(runs)
               /\ \A k \in 1..(Len(periods) - 1) :
                      periods[k][2] < periods[k + 1][1]
        /\ text[2].name # "weekly.conditions.seq.start" => periods = <<>>

\* the entries of the text of the other categories that cover day d
EntriesCovering(text, days, d) ==
    {k \in 1..Len(text) :
        \/ /\ text[k].name = "weekly.conditions.seq.period"
           /\ IndexOfDay(days, text[k].from) <= d
           /\ d <= IndexOfDay(days, text[k].to)
        \/ /\ text[k].name = "weekly.condition.on.day"
           /\ IndexOfDay(days, text[k].day) = d}

\* every day of another category is covered by exactly one entry
OtherDaysCoveredOnce(cats, days, text) ==
    \A d \in 0..(Len(cats) - 1) :
        cats[d + 1] # PrimaryCategory(cats) =>
            Cardinality(EntriesCovering(text, days, d)) = 1

\* the least and the greatest of a list of integers
MinOf(ns) == CHOOSE n \in Range(ns) : \A m \in Range(ns) : n <= m
MaxOf(ns) == CHOOSE n \in Range(ns) : \A m \in Range(ns) : m <= n

\* the data of weekly.temp.range are the numeric extremes
RangesAreExtremes(lows, highs, data) ==
    /\ data.low_min = chars_int(MinOf(lows))
    /\ data.low_max = chars_int(MaxOf(lows))
    /\ data.high_min = chars_int(MinOf(highs))
    /\ data.high_max = chars_int(MaxOf(highs))

\* the summary alone: the first sentence is chosen as C18 says
Week_FirstSentence ==
    call.fn = "handle_week_weather" =>
        /\ call.exc = NoExc
        /\ FirstSentenceOfPrimary(call.cats, call.days, call.spoken[1])

\* a week with the primary category on three days, two of them in a run
Week_WitnessRun ==
    /\ call.fn = "handle_week_weather"
    /\ call.cats = <<"Rain", "Rain", "Clear", "Clouds", "Clear", "Clouds",
                     "Rain">>
    /\ call.spoken[1][2].name = "weekly.conditions.seq.start"
    /\ PeriodsOf(call.spoken[1], call.days) = << <<0, 1>> >>

\* the categories of the week the provider reports to a query of Spec
CatsReported == [i \in 1..WeekLength |-> last.world.cond]

DaysReported ==
    WeekOf(IF last.message.when = Nil THEN Today ELSE last.message.when)

\* a week query the provider has the forecasts of
WeekServed ==
    /\ last # Idle
    /\ last.handler = "handle_week_weather"
    /\ ProviderServes
    /\ last.world.days = 0..13
    /\ last.world.first_hour = 0

\* C18: in handle_week_weather the primary category is a category on the
\* greatest number of the 7 days (on a tie the one whose first day is
\* earliest), and the first spoken sentence is weekly.conditions.mostly.one
\* when the primary category covers at least half the days (2 * count >= 7),
\* else weekly.conditions.seq.start followed by one from/to period per run
\* of >= 2 consecutive primary days when there is such a run, else
\* weekly.conditions.some.days.
C18_WeekFirstSentence ==
    WeekServed =>
        /\ last.escaped = NoExc
        /\ Len(last.spoken) >= 1
        /\ FirstSentenceOfPrimary(CatsReported, DaysReported, last.spoken[1])

\* a week query for this week, served by the provider: ValueError escapes
\* the handler and nothing is spoken
C18_WitnessThisWeek ==
    /\ WeekServed
    /\ last.message.when = Nil
    /\ last.escaped = Exc("ValueError")
    /\ last.spoken = <<>>

\* a week query while the provider has no forecast: dict(None) raises
\* TypeError
C18_WitnessNoForecast ==
    /\ last.handler = "handle_week_weather"
    /\ ProviderServes
    /\ last.world.days = {}
    /\ last.escaped = Exc("TypeError")
    /\ last.spoken = <<>>

\* C19: in handle_week_weather every day whose category differs from the
\* primary category is covered by exactly one entry of the dialog of the
\* exceptions: it lies inside one reported from/to run of its category or
\* it is reported as a single weekly.condition.on.day entry; no such day is
\* left unmentioned and none is mentioned twice.
C19_OtherDaysCoveredOnce ==
    call.fn = "handle_week_weather" =>
        /\ call.exc = NoExc
        /\ OtherDaysCoveredOnce(call.cats, call.days, call.spoken[2])

\* rain on the fourth day and on the last two: the run of the last two is
\* reported and the fourth day is in no entry
C19_WitnessIsolatedDay ==
    /\ call.fn = "handle_week_weather"
    /\ call.cats = <<"Clear", "Clear", "Clear", "Rain", "Clear", "Rain",
                     "Rain">>
    /\ PeriodsOf(call.spoken[2], call.days) = << <<5, 6>> >>
    /\ EntriesCovering(call.spoken[2], call.days, 3) = {}

\* C20: in handle_week_weather the values spoken with weekly.temp.range are
\* the numeric extremes of the daily temperatures: low_min and low_max the
\* numerically smallest and largest of the 7 daily lows, high_min and
\* high_max those of the 7 daily highs, for all values, those of different
\* digit counts or signs included.
C20_RangesAreExtremes ==
    call.fn = "handle_week_weather" =>
        /\ call.exc = NoExc
        /\ RangesAreExtremes(call.lows, call.highs, call.spoken[3].data)

\* highs of 9 and of 11 degrees: the highest spoken is 9
C20_WitnessDigits ==
    /\ call.fn = "handle_week_weather"
    /\ call.highs = <<9, 9, 9, 11, 11, 11, 11>>
    /\ call.spoken[3].data.high_max = chars_int(9)
    /\ call.spoken[3].data.high_min = chars_int(11)

(***************************************************************************)
(* C21..C30                                                                *)
(***************************************************************************)
\* C21: _daily_forecast_at_location ends whatever the provider does: a 404
\* answer shortens the name by one word, and any other HTTP error (401, 500)
\* goes to the caller after the one request that met it, so that a name of
\* n words never causes more than n requests.
C21_DailyForecastTerminates ==
    call.fn = "_daily_forecast_at_location" =>
        /\ Len(call.requests) <= Len(call.asked)
        /\ (call.world.http # 200 /\ call.requests # <<>>) =>
               /\ call.done
               /\ call.exc = HTTPError(call.world.http)

\* the provider fails with a server error: the loop has asked for the same
\* name as often as it was followed, and has not ended
C21_WitnessSameNameAgain ==
    /\ call.fn = "_daily_forecast_at_location"
    /\ call.world.http = 500
    /\ Len(call.requests) = MaxRequests
    /\ \A i \in 1..MaxRequests : call.requests[i].query.q = call.asked
    /\ ~call.done

\* the larger cnts, up to 16, whose entry was fetched at most 15 minutes
\* (900 s) before the request
FreshWider(query_cache, data, now) ==
    {m \in (data.query.cnt + 1)..CntLimit :
        /\ WithCnt(data, m) \in DOMAIN query_cache
        /\ now - query_cache[WithCnt(data, m)].time <= 900}

\* C22: a daily-forecast request for cnt = n days with no entry of its own
\* is answered from the cache, with no remote call, whenever an entry
\* fetched within the last 15 minutes is stored for the same path and query
\* with a larger cnt m, n < m <= 16, also when an entry with a cnt between n
\* and m is stored that is older than 15 minutes.
C22_FreshWiderEntryServes ==
    (/\ call.fn = "OWMApi.request"
     /\ "cnt" \in DOMAIN call.data.query
     /\ call.data \notin DOMAIN call.before
     /\ FreshWider(call.before, call.data, call.now) # {}) =>
        /\ call.remote_calls = 0
        /\ call.exc = NoExc
        /\ \E m \in FreshWider(call.before, call.data, call.now) :
               call.ret = call.before[WithCnt(call.data, m)].resp

\* a forecast of 14 days, never fetched, is asked for while the forecast of
\* 16 days is fresh and the forecast of 15 days is older than 15 minutes:
\* the remote service is called
C22_WitnessStaleNearerEntry ==
    /\ call.fn = "OWMApi.request"
    /\ "cnt" \in DOMAIN call.data.query
    /\ call.data.query.cnt = 14
    /\ call.data \notin DOMAIN call.before
    /\ FreshWider(call.before, call.data, call.now) = {16}
    /\ WithCnt(call.data, 15) \in DOMAIN call.before
    /\ call.remote_calls = 1

\* the statement of C23 as it stands: a failed provider request leaves
\* query_cache unchanged: when the remote call raises or returns a body
\* holding {"cod":"404", request raises HTTPError with status 404 and no
\* entry is added or overwritten.
C23_FailureRaisesNotFound ==
    (/\ call.fn = "OWMApi.request"
     /\ call.remote_calls = 1
     /\ call.answer # "served") =>
        /\ call.exc = HTTPError(404)
        /\ api.query_cache = call.before

\* C23: a failed provider request leaves query_cache unchanged: when the
\* remote call raises, its HTTPError goes to the caller with the status it
\* has, and when it returns a body holding {"cod":"404", request raises
\* HTTPError with status 404; in both cases no entry is added or
\* overwritten, so that every entry of the cache is a response the service
\* served for the request it is stored under, and an answer from the cache
\* is never a 'not found' one.
C23_FailedRequestStoresNothing ==
    /\ (/\ call.fn = "OWMApi.request"
        /\ call.remote_calls = 1
        /\ call.answer # "served") =>
           /\ call.exc = IF call.answer = "cod 404" THEN HTTPError(404)
                         ELSE HTTPError(500)
           /\ api.query_cache = call.before
    /\ (call.fn = "OWMApi.request" /\ call.remote_calls = 0) =>
           /\ call.exc = NoExc
           /\ \E k \in DOMAIN call.before : call.ret = call.before[k].resp
    /\ \A k \in DOMAIN api.query_cache :
           /\ api.query_cache[k].resp # Nil
           /\ api.query_cache[k].resp.data = k

\* the entry of a request is older than 15 minutes and the remote call
\* returns a 404 body: HTTPError 404 is raised and the entry stays
C23_WitnessStaleEntryKept ==
    /\ call.fn = "OWMApi.request"
    /\ call.answer = "cod 404"
    /\ call.data \in DOMAIN call.before
    /\ call.now - call.before[call.data].time > 900
    /\ call.exc = HTTPError(404)
    /\ api.query_cache = call.before

\* the remote call raises an HTTPError of status 500: request raises it
C23_WitnessServerError ==
    /\ call.fn = "OWMApi.request"
    /\ call.answer = "error"
    /\ call.remote_calls = 1
    /\ call.exc = HTTPError(500)

\* the words of p are the first words of name
IsWordPrefix(p, name) ==
    /\ p # <<>>
    /\ Len(p) <= Len(name)
    /\ p = SubSeq(name, 1, Len(p))

\* the step makes the first request of a named lookup
FirstRequestMade ==
    /\ \/ call.done
       \/ ~call.done /\ call.requests = <<>>
    /\ call'.requests # <<>>

\* C24: location_translations only ever records names that worked: over any
\* sequence of named lookups, an entry is written only by a lookup the
\* provider served, and maps a name to a word-prefix of that name, the one
\* the served request asked for; no entry is removed; and a named lookup
\* (weather_at_place, three_hours_forecast, daily forecast) of a name that
\* has an entry sends its first request with the translated name.
C24_TranslationsWorked ==
    [][/\ \A k \in DOMAIN location_translations' :
              (\/ k \notin DOMAIN location_translations
               \/ location_translations'[k] # location_translations[k]) =>
                  /\ IsWordPrefix(location_translations'[k], k)
                  /\ call'.exc = NoExc
                  /\ call'.world.http = 200
                  /\ location_translations'[k] \in call'.world.found
                  /\ call'.requests[Len(call'.requests)].query.q =
                         location_translations'[k]
       /\ DOMAIN location_translations \subseteq
              DOMAIN location_translations'
       /\ FirstRequestMade =>
              call'.requests[1].query.q =
                  IF call'.asked \in DOMAIN location_translations
                  THEN location_translations[call'.asked]
                  ELSE call'.asked
      ]_vars

\* "paris texas" is translated to "paris", and the 3-hour forecast of
\* "paris texas" has been asked for as "paris"
C24_WitnessTranslatedAsked ==
    /\ <<"paris", "texas">> \in DOMAIN location_translations
    /\ location_translations[<<"paris", "texas">>] = <<"paris">>
    /\ call.fn = "three_hours_forecast"
    /\ call.asked = <<"paris", "texas">>
    /\ call.requests[1].query.q = <<"paris">>

\* the three events of schedule_for_daily_use: one day, one day less 15
\* minutes and one day and 15 minutes, in seconds
DailyEvents ==
    <<[name |-> "precache1", interval |-> 86400,
       handler |-> "prime_weather_cache"],
      [name |-> "precache2", interval |-> 85500,
       handler |-> "prime_weather_cache"],
      [name |-> "precache3", interval |-> 87300,
       handler |-> "prime_weather_cache"]>>

C26_DelegationEndsInResponse ==
    last.handler \in {"handle_current_weather", "handle_forecast"} =>
        /\ last.handovers <= 1
        /\ last.escaped = NoExc
        /\ last.spoken # <<>>

\* the forecast of the day after tomorrow is asked of a provider that
\* serves: no hand-over, nothing is spoken and TypeError leaves
\* handle_forecast
C26_WitnessForecastEscapes ==
    /\ last.handler = "handle_forecast"
    /\ last.message.when = [day |-> Today.day + 2, hour |-> 0]
    /\ last.world.http = 200
    /\ last.world.found = Names
    /\ last.world.days # {}
    /\ last.handovers = 0
    /\ last.spoken = <<>>
    /\ last.escaped = Exc("TypeError")

\* the hand-overs themselves are at most one: handle_forecast hands a query
\* for today over, and handle_current_weather keeps it
C26_AtMostOneHandOver ==
    last.handler \in {"handle_current_weather", "handle_forecast"} =>
        /\ last.handovers <= 1
        /\ last.escaped # NoReturn
        /\ last.handovers = 1 <=>
               \/ /\ last.handler = "handle_forecast"
                  /\ last.message.when = Today
               \/ /\ last.handler = "handle_current_weather"
                  /\ last.message.when \notin {Nil, Today}

\* the dialogs of a condition query about rain that carry neither
\* "forecast." nor "at.time."
UnprefixedRainDialogs ==
    {local \o base :
        local \in {"", "local."},
        base \in {"affirmative.condition", "raining.alternative",
                  "no.rain.predicted"}}

\* C27: a report carries a day only for forecast queries: in a condition
\* query about the current weather (the date is today or none, no time of
\* day) that the provider serves, the report __populate_report returns has
\* day = None and time = None, and the dialog __select_condition_dialog
\* selects, which is spoken, has neither the prefix "forecast." nor
\* "at.time.".
C27_CurrentReportHasNoDay ==
    (/\ last.handler = "handle_isit_raining"
     /\ last.message.when \in {Nil, Today}
     /\ ProviderServes
     /\ last.world.days # {}) =>
        /\ last.escaped = NoExc
        /\ last.report # Nil
        /\ last.report.day = Nil
        /\ last.report.time = None
        /\ Len(last.spoken) = 1
        /\ last.spoken[1] \in UnprefixedRainDialogs

\* "is it raining in paris" is asked of a provider that serves: ValueError
\* leaves the handler before a dialog is selected
C27_WitnessNoDialog ==
    /\ last.handler = "handle_isit_raining"
    /\ last.message.when = Nil
    /\ last.message.Location = <<"paris">>
    /\ ProviderServes
    /\ last.world.days # {}
    /\ last.escaped = Exc("ValueError")
    /\ last.spoken = <<>>

\* __populate_current itself, on a report whose temperature unit is set:
\* the populated report has no day and the dialog selected for it no prefix
C27_PopulateCurrentSetsNoDay ==
    (call.fn = "__populate_current" /\ call.exc = NoExc /\ call.ret # Nil) =>
        /\ call.ret.day = Nil
        /\ call.ret.time = None
        /\ call.dialog \in UnprefixedRainDialogs

\* the report populated for now carries the day, and the dialog selected is
\* one of the forecast
C27_WitnessDayOfToday ==
    /\ call.fn = "__populate_current"
    /\ call.exc = NoExc
    /\ call.ret # Nil
    /\ call.ret.day # Nil
    /\ call.ret.time = None
    /\ call.dialog = "forecast.local.no.rain.predicted"

\* C28: every report _initialize_report returns has usable defaults: for a
\* message with no Location slot short_location is the configured city and
\* long_location "city, state, country"; for a message with no Unit slot
\* temperature_unit is WeatherConfig.temperature_unit; and short_location,
\* long_location and temperature_unit are never None.
C28_ReportDefaults ==
    (call.fn = "_initialize_report" /\ call.message # Nil) =>
        /\ call.exc = NoExc
        /\ call.message.Location = NoneName =>
               /\ call.ret.short_location = weather_config.city
               /\ call.ret.long_location =
                      JoinLocation(weather_config.city, weather_config.state,
                                   weather_config.country)
        /\ call.message.Unit = None =>
               call.ret.temperature_unit =
                   WeatherConfig_temperature_unit(weather_config)
                       ._temperature_unit
        /\ call.ret.short_location # NoneName
        /\ call.ret.long_location # NoneName
        /\ call.ret.temperature_unit # None

\* a message with neither slot: the locations and the unit of the report
\* are None
C28_WitnessDefaultsLost ==
    /\ call.fn = "_initialize_report"
    /\ call.message # Nil
    /\ call.message.Location = NoneName
    /\ call.message.Unit = None
    /\ call.ret.short_location = NoneName
    /\ call.ret.long_location = NoneName
    /\ call.ret.temperature_unit = None

\* without a message the defaults of WeatherReport stay
C28_DefaultsWithoutMessage ==
    (call.fn = "_initialize_report" /\ call.message = Nil) =>
        /\ call.ret.short_location = weather_config.city
        /\ call.ret.long_location =
               JoinLocation(weather_config.city, weather_config.state,
                            weather_config.country)
        /\ call.ret.temperature_unit = CELSIUS

\* the display fields __report_weather writes
DisplayFields ==
    {"current", "min", "max", "location", "condition", "icon", "weathercode",
     "humidity", "wind"}

\* C29: every report that reaches __report_weather has the fields the
\* display needs: after any of the populate operations (__populate_current,
\* __populate_for_time, __populate_forecast, add_forecast in
\* handle_next_hour) on a provider that serves, report.wind is set and
\* report.wind_format is a format string, so that format_wind returns the
\* formatted wind, every display field is written and nothing is raised.
C29_DisplayFieldsReady ==
    (call.fn = "__report_weather" /\ call.world.http = 200) =>
        /\ call.exc = NoExc
        /\ call.report.wind # Nil
        /\ call.report.wind_format # None
        /\ call.gui = DisplayFields

\* __populate_forecast on a report with the configured unit: the wind is
\* set, wind_format is None, and format_wind raises AttributeError before
\* the wind is written to the display
C29_WitnessNoWindFormat ==
    /\ call.fn = "__report_weather"
    /\ call.op = "__populate_forecast"
    /\ call.message = Nil
    /\ call.world.http = 200
    /\ call.report.wind # Nil
    /\ call.report.wind_format = None
    /\ call.exc = Exc("AttributeError")
    /\ call.gui = DisplayFields \ {"wind"}

\* __populate_current and __populate_for_time do set wind_format: on a
\* report with the configured unit the display is written
C29_CurrentAndTimeReady ==
    (/\ call.fn = "__report_weather"
     /\ call.op \in {"__populate_current", "__populate_for_time"}
     /\ call.message = Nil
     /\ call.world.http = 200) =>
        /\ call.exc = NoExc
        /\ call.report.wind_format \in {"{speed} {direction}", "{speed}"}
        /\ call.gui = DisplayFields

\* C30: a query that names a location is answered for that location:
\* whenever the message has a Location slot, every request sent to the
\* provider (current weather, 3-hour or daily forecast) asks for that name,
\* or for its first words when the provider did not know it, and none asks
\* for the device's latitude and longitude; the coordinates are used only
\* when no location is named.
C30_NamedLocationAsked ==
    (last # Idle /\ last.message.Location # NoneName) =>
        \A i \in 1..Len(last.requests) :
            /\ "q" \in DOMAIN last.requests[i].query
            /\ "lat" \notin DOMAIN last.requests[i].query
            /\ IsWordPrefix(last.requests[i].query.q, last.message.Location)

\* the current weather of paris is asked of a device that has coordinates:
\* the request is keyed by the device's latitude and longitude
C30_WitnessDeviceCoordinates ==
    /\ last # Idle
    /\ last.handler = "handle_current_weather"
    /\ last.message.Location = <<"paris">>
    /\ last.world.http = 200
    /\ last.requests # <<>>
    /\ last.requests[1] =
           [path |-> "/weather",
            query |-> [lat |-> weather_config.latitude,
                       lon |-> weather_config.longitude]]
    /\ weather_config.latitude # 0

\* on a device without coordinates the name is asked for
C30_NamedLocationAskedWithoutCoordinates ==
    (/\ last # Idle
     /\ last.message.Location # NoneName
     /\ weather_config.latitude = 0
     /\ weather_config.longitude = 0) =>
        \A i \in 1..Len(last.requests) :
            /\ "q" \in DOMAIN last.requests[i].query
            /\ IsWordPrefix(last.requests[i].query.q, last.message.Location)

====
